---- MODULE Spec2Model ----
(***************************************************************************)
(* A model of StGit's stack transaction (stgit/lib/transaction.py) and of  *)
(* the parts of the Git facade (stgit/lib/git.py) it drives: the ref       *)
(* cache, the index-only three-way merge and the index+worktree.           *)
(*                                                                         *)
(* Git objects are content addressed, so a commit is modelled by its data  *)
(* (tree, parents, author, message, committer) and a tree by its content   *)
(* (a function from paths to file contents): equal data = same sha1 = same *)
(* interned handle.                                                        *)
(***************************************************************************)
EXTENDS Integers, Sequences, FiniteSets, TLC

\* ------------------------------------------------------------------ bounds
\* Staging operations made on one transaction before run() is called.
MaxOps == 3
\* Committer timestamps a commit can be created with: 0..MaxStamp.
MaxStamp == 1
\* Longest unapplied / hidden list handed to reorder_patches.
MaxListLen == 2

PatchNames == {"a", "b", "c"}
Paths == {"f", "g"}
Stamps == 0..MaxStamp

\* Python's None (also: the tombstone of the override map).
None == [none |-> TRUE]
\* The forty zeros update-ref takes as "the ref does not exist".
Zero == [zero |-> TRUE]

\* self.__error when no error is set (None; "if self.__error" tests it)
NoError == ""

BranchRef == "refs/heads/master"
Msg == "msg"

\* ------------------------------------------------------------ sequence helpers
Range(s) == {s[i] : i \in 1..Len(s)}

Last(s) == s[Len(s)]

RECURSIVE Filter(_, _)
\* [pn for pn in s if pn in S]
Filter(s, S) ==
  IF s = <<>> THEN <<>>
  ELSE (IF Head(s) \in S THEN <<Head(s)>> ELSE <<>>) \o Filter(Tail(s), S)

\* list.index(x) for an x that is in the list
IndexOf(s, x) == CHOOSE i \in 1..Len(s) : s[i] = x /\ \A j \in 1..(i - 1) : s[j] # x

\* del s[s.index(x)]
DelFirst(s, x) ==
  LET i == IndexOf(s, x) IN SubSeq(s, 1, i - 1) \o SubSeq(s, i + 1, Len(s))

NoDup(s) == \A i, j \in 1..Len(s) : s[i] = s[j] => i = j

RECURSIVE SeqsUpTo(_, _)
\* every list over S of length at most n
SeqsUpTo(S, n) ==
  IF n = 0 THEN {<<>>}
  ELSE LET shorter == SeqsUpTo(S, n - 1)
       IN shorter \cup {Append(s, x) : s \in shorter, x \in S}

\* ------------------------------------------------------------ git objects
Tree(f, g) == [p \in Paths |-> IF p = "f" THEN f ELSE g]

\* CommitData: tree, parents, author, committer, message.
CommitData(tree, parents, message, committer) ==
  [tree |-> tree, parents |-> parents, author |-> "A",
   message |-> message, committer |-> committer]

\* CommitData.parent
Parent(cd) == cd.parents[1]

\* A set_parent that leaves the parent as it was.
set_parentKept(cd, parent) == cd

\* CommitData.set_parent / set_tree / set_committer

set_parent(cd, parent) == [cd EXCEPT !.parents = <<parent>>]

set_tree(cd, tree) == [cd EXCEPT !.tree = tree]

set_committer(cd, committer) == [cd EXCEPT !.committer = committer]

\* An is_nochange that never finds a commit empty.
is_nochangeNever(cd) == FALSE

\* CommitData.is_nochange
is_nochange(cd) == Len(cd.parents) = 1 /\ cd.tree = Parent(cd).tree

\* CommitData.commit: git commit-tree stamps the committer (absent from the
\* environment when it was cleared) with the current identity and time.
Commit(cd, now) ==
  IF cd.committer = None THEN set_committer(cd, now) ELSE cd

\* The commits of the stacks the model starts from.
C0 == CommitData(Tree(0, 0), <<>>, "base", 0)
Ca == CommitData(Tree(1, 0), <<C0>>, "a", 0)
Cb == CommitData(Tree(1, 1), <<Ca>>, "b", 0)
Cc == CommitData(Tree(2, 1), <<Cb>>, "c", 0)
\* c as written directly on the base, touching both files
CcOnBase == CommitData(Tree(1, 1), <<C0>>, "c", 0)
\* a commit made on top of h by another tool (git commit --allow-empty)
ExternalCommit(h) == CommitData(h.tree, <<h>>, "x", 0)

\* ------------------------------------------------------------ Refs
\* Refs.get(ref), on a loaded cache (KeyError when ref is unknown)
RefsGet(cache, ref) == cache[ref]

\* What git holds for a ref, as update-ref compares it.
GitValue(git, ref) == IF ref \in DOMAIN git THEN git[ref] ELSE Zero

\* A Refs.set that records the new value in its cache and never runs
\* update-ref.
RefsSetCacheOnly(git, cache, ref, commit) ==
  [git |-> git, cache |-> (ref :> commit) @@ cache, exc |-> "none"]

\* A Refs.set that records the new value in its cache before it runs
\* update-ref.
RefsSetCacheFirst(git, cache, ref, commit) ==
  LET old == IF ref \in DOMAIN cache THEN cache[ref] ELSE Zero
  IN IF old = commit
     THEN [git |-> git, cache |-> cache, exc |-> "none"]
     ELSE IF GitValue(git, ref) = old
          THEN [git |-> (ref :> commit) @@ git,
                cache |-> (ref :> commit) @@ cache, exc |-> "none"]
          ELSE [git |-> git, cache |-> (ref :> commit) @@ cache,
                exc |-> "RunException"]

\* A Refs.set that runs update-ref without the old value.
RefsSetNoOldValue(git, cache, ref, commit) ==
  LET old == IF ref \in DOMAIN cache THEN cache[ref] ELSE Zero
  IN IF old = commit
     THEN [git |-> git, cache |-> cache, exc |-> "none"]
     ELSE [git |-> (ref :> commit) @@ git,
           cache |-> (ref :> commit) @@ cache, exc |-> "none"]

\* Refs.set(ref, commit, msg): update-ref as a compare-and-swap on the cached
\* value; the cache follows only when git accepted it.
RefsSet(git, cache, ref, commit) ==
  LET old == IF ref \in DOMAIN cache THEN cache[ref] ELSE Zero
  IN IF old = commit
     THEN [git |-> git, cache |-> cache, exc |-> "none"]
     ELSE IF GitValue(git, ref) = old
          THEN [git |-> (ref :> commit) @@ git,
                cache |-> (ref :> commit) @@ cache, exc |-> "none"]
          ELSE [git |-> git, cache |-> cache, exc |-> "RunException"]

\* A Refs.delete that leaves the deleted ref in its cache.
RefsDeleteKeepsCache(git, cache, ref, ok) ==
  IF ref \notin DOMAIN cache
  THEN [git |-> git, cache |-> cache, exc |-> "KeyError"]
  ELSE IF ok /\ GitValue(git, ref) = cache[ref]
       THEN [git |-> [r \in DOMAIN git \ {ref} |-> git[r]],
             cache |-> cache, exc |-> "none"]
       ELSE [git |-> git, cache |-> cache, exc |-> "RunException"]

\* Refs.delete(ref) on a loaded cache: KeyError for a ref the cache does
\* not have, else update-ref -d with the cached value as the old value
\* (ok: it does not fail for a reason of its own), then "del" in the cache.
RefsDelete(git, cache, ref, ok) ==
  IF ref \notin DOMAIN cache
  THEN [git |-> git, cache |-> cache, exc |-> "KeyError"]
  ELSE IF ok /\ GitValue(git, ref) = cache[ref]
       THEN [git |-> [r \in DOMAIN git \ {ref} |-> git[r]],
             cache |-> [r \in DOMAIN cache \ {ref} |-> cache[r]],
             exc |-> "none"]
       ELSE [git |-> git, cache |-> cache, exc |-> "RunException"]

\* ------------------------------------------------------------ Index
\* Index.apply_treediff(tree1, tree2): git apply --cached of the diff; a
\* changed path applies only where the index still holds the pre-image.
\* git apply is all-or-nothing.
apply_treediff(idx, tree1, tree2) ==
  LET changed == {p \in Paths : tree1[p] # tree2[p]}
  IN IF \A p \in changed : idx[p] = tree1[p]
     THEN [ok |-> TRUE,
           idx |-> [p \in Paths |-> IF p \in changed THEN tree2[p] ELSE idx[p]]]
     ELSE [ok |-> FALSE, idx |-> idx]

\* The commands of the non-trivial merge: read-tree unless the index is
\* known to hold ours, git apply --cached, write-tree when that applied.
MergeCmds(read, applied) ==
  (IF read THEN <<"read-tree">> ELSE << >>) \o <<"apply">>
    \o (IF applied THEN <<"write-tree">> ELSE << >>)

\* A merge that, when the diff does not apply, answers with the hint it
\* was given instead of the tree it read.
IndexMergeApplyKeepsHint(base, o, t, current, idx) ==
  LET r == apply_treediff(IF current # o THEN o ELSE idx, base, t)
  IN IF r.ok
     THEN [tree |-> r.idx, current |-> r.idx, idx |-> r.idx,
           cmds |-> MergeCmds(current # o, TRUE)]
     ELSE [tree |-> None, current |-> current, idx |-> r.idx,
           cmds |-> MergeCmds(current # o, FALSE)]

\* The non-trivial part of Index.merge, after the swap of ours and theirs.
IndexMergeApply(base, o, t, current, idx) ==
  LET r == apply_treediff(IF current # o THEN o ELSE idx, base, t)
  IN IF r.ok
     THEN [tree |-> r.idx, current |-> r.idx, idx |-> r.idx,
           cmds |-> MergeCmds(current # o, TRUE)]
     ELSE [tree |-> None, current |-> o, idx |-> r.idx,
           cmds |-> MergeCmds(current # o, FALSE)]

\* An Index.merge without the shortcut for ours == theirs.
IndexMergeNoSameCase(base, ours, theirs, current, idx) ==
  IF base = ours
  THEN [tree |-> theirs, current |-> current, idx |-> idx, cmds |-> << >>]
  ELSE IF base = theirs
  THEN [tree |-> ours, current |-> current, idx |-> idx, cmds |-> << >>]
  ELSE IF current = theirs
       THEN IndexMergeApply(base, theirs, ours, current, idx)
       ELSE IndexMergeApply(base, ours, theirs, current, idx)

\* An Index.merge that never swaps ours and theirs.
IndexMergeNoSwap(base, ours, theirs, current, idx) ==
  IF base = ours
  THEN [tree |-> theirs, current |-> current, idx |-> idx, cmds |-> << >>]
  ELSE IF base = theirs
  THEN [tree |-> ours, current |-> current, idx |-> idx, cmds |-> << >>]
  ELSE IF ours = theirs
  THEN [tree |-> ours, current |-> current, idx |-> idx, cmds |-> << >>]
  ELSE IndexMergeApply(base, ours, theirs, current, idx)

\* Index.merge(base, ours, theirs, current) on an index holding idx:
\* (result tree or None, tree now in the index or None), the index, and
\* the git commands it ran on the index.
IndexMerge(base, ours, theirs, current, idx) ==
  IF base = ours
  THEN [tree |-> theirs, current |-> current, idx |-> idx, cmds |-> << >>]
  ELSE IF base = theirs
  THEN [tree |-> ours, current |-> current, idx |-> idx, cmds |-> << >>]
  ELSE IF ours = theirs
  THEN [tree |-> ours, current |-> current, idx |-> idx, cmds |-> << >>]
  ELSE IF current = theirs
       THEN IndexMergeApply(base, theirs, ours, current, idx)
       ELSE IndexMergeApply(base, ours, theirs, current, idx)

\* ------------------------------------------------------------ IndexAndWorktree
\* iw = [tree: the tree in the index, dirty: the paths whose worktree file
\*       differs from the index, conflicts: the index has unmerged entries]

\* IndexAndWorktree.checkout(old_tree, new_tree): read-tree -u -m refuses an
\* unmerged index and a local change in a file it has to update.
IwCheckout(iw, old_tree, new_tree) ==
  IF iw.conflicts \/ \E p \in iw.dirty : old_tree[p] # new_tree[p]
  THEN [iw |-> iw, exc |-> "CheckoutException"]
  ELSE [iw |-> [iw EXCEPT !.tree = new_tree], exc |-> "none"]

\* IndexAndWorktree.checkout_hard(tree): read-tree --reset -u
IwCheckoutHard(iw, tree) ==
  [iw |-> [tree |-> tree, dirty |-> {}, conflicts |-> FALSE], exc |-> "none"]

\* IndexAndWorktree.merge(base, ours, theirs): merge-recursive, file by file.
IwMerge(iw, base, ours, theirs) ==
  LET conflicting == {p \in Paths : /\ ours[p] # base[p]
                                    /\ theirs[p] # base[p]
                                    /\ ours[p] # theirs[p]}
      merged == [p \in Paths |-> IF theirs[p] = base[p] \/ p \in conflicting
                                 THEN ours[p] ELSE theirs[p]]
      touched == {p \in Paths : merged[p] # ours[p]} \cup conflicting
  IN IF iw.conflicts \/ iw.dirty \cap touched # {}
     THEN [iw |-> iw, exc |-> "MergeException"]
     ELSE IF conflicting # {}
          THEN [iw |-> [iw EXCEPT !.tree = merged, !.conflicts = TRUE],
                exc |-> "MergeConflictException"]
          ELSE [iw |-> [iw EXCEPT !.tree = merged], exc |-> "none"]

\* ------------------------------------------------------------ the live stack
\* Stack.head (Branch.head): the branch ref, read through the ref cache.
StackHead(cache) == RefsGet(cache, BranchRef)

\* Stack.base: the parent of the lowest applied patch, or the head.
StackBase(recs, order, cache) ==
  IF order.applied # <<>> THEN Parent(recs[order.applied[1]])
  ELSE StackHead(cache)

\* Stack.head_top_equal()
head_top_equal(recs, order, cache) ==
  order.applied = <<>> \/ StackHead(cache) = recs[Last(order.applied)]

\* ------------------------------------------------------------ StackTransaction
\* The fields __init__ sets; temp_index is the Index object (None, or the
\* number of the index file it was created on) and idx the content of the
\* temporary index file (None until a tree is read into it).
NewTransaction(recs, order, cache, discard_changes, allow_conflicts) ==
  [applied |-> order.applied,
   unapplied |-> order.unapplied,
   hidden |-> order.hidden,
   patches |-> << >>,
   conflicting_push |-> None,
   error |-> NoError,
   current_tree |-> StackHead(cache).tree,
   base |-> StackBase(recs, order, cache),
   discard_changes |-> discard_changes,
   bad_head |-> None,
   allow_conflicts |-> allow_conflicts,
   temp_index |-> None,
   temp_index_tree |-> None,
   idx |-> None]

\* StackTransaction.all_patches
all_patches(t) == t.applied \o t.unapplied \o t.hidden

\* A patch map that forgets the overrides and reads the live stack.
TransPatchLive(t, recs, pn) == recs[pn]

\* _TransPatchMap.__getitem__: the override, else the live stack's commit.
TransPatch(t, recs, pn) ==
  IF pn \in DOMAIN t.patches THEN t.patches[pn] ELSE recs[pn]

\* A top that reads the live stack's record of the last applied patch.
topLive(t, recs) ==
  IF t.applied # <<>> THEN recs[Last(t.applied)] ELSE t.base

\* StackTransaction.top
top(t, recs) ==
  IF t.applied # <<>> THEN TransPatch(t, recs, Last(t.applied)) ELSE t.base

\* A head that is the top whatever head the command has set.
headIsTop(t, recs) == top(t, recs)

\* StackTransaction.head (__get_head)
head(t, recs) == IF t.bad_head # None THEN t.bad_head ELSE top(t, recs)

\* A __halt that raises without recording the error.
haltForgetsError(t, msg) == t

\* StackTransaction.__halt
halt(t, msg) == [t EXCEPT !.error = msg]

\* A __checkout that takes "no tree change" as "nothing to do" even when
\* the index has unresolved conflicts.
checkoutCarriesConflicts(t, iw, useIw, tree, allow_bad_head, hte) ==
  IF ~allow_bad_head /\ ~hte
  THEN [t |-> t, iw |-> iw, exc |-> "TransactionException",
        out |-> "HEAD and top are not the same."]
  ELSE IF t.current_tree = tree /\ ~t.discard_changes
  THEN [t |-> t, iw |-> iw, exc |-> "none", out |-> ""]
  ELSE IF ~useIw
  THEN [t |-> t, iw |-> iw, exc |-> "AssertionError", out |-> ""]
  ELSE LET r == IF t.discard_changes THEN IwCheckoutHard(iw, tree)
                ELSE IwCheckout(iw, t.current_tree, tree)
       IN IF r.exc = "none"
          THEN [t |-> [t EXCEPT !.current_tree = tree], iw |-> r.iw,
                exc |-> "none", out |-> ""]
          ELSE [t |-> t, iw |-> iw, exc |-> r.exc, out |-> ""]

\* A __checkout that checks the tree out and does not record it as the
\* current tree.
checkoutForgetsTree(t, iw, useIw, tree, allow_bad_head, hte) ==
  IF ~allow_bad_head /\ ~hte
  THEN [t |-> t, iw |-> iw, exc |-> "TransactionException",
        out |-> "HEAD and top are not the same."]
  ELSE IF t.current_tree = tree /\ ~t.discard_changes
  THEN IF t.allow_conflicts \/ ~useIw \/ ~iw.conflicts
       THEN [t |-> t, iw |-> iw, exc |-> "none", out |-> ""]
       ELSE [t |-> t, iw |-> iw, exc |-> "TransactionException",
             out |-> "Need to resolve conflicts first"]
  ELSE IF ~useIw
  THEN [t |-> t, iw |-> iw, exc |-> "AssertionError", out |-> ""]
  ELSE LET r == IF t.discard_changes THEN IwCheckoutHard(iw, tree)
                ELSE IwCheckout(iw, t.current_tree, tree)
       IN IF r.exc = "none"
          THEN [t |-> t, iw |-> r.iw, exc |-> "none", out |-> ""]
          ELSE [t |-> t, iw |-> iw, exc |-> r.exc, out |-> ""]

\* StackTransaction.__checkout(tree, iw, allow_bad_head); hte is what
\* stack.head_top_equal() answers, useIw is "iw != None".
checkout(t, iw, useIw, tree, allow_bad_head, hte) ==
  IF ~allow_bad_head /\ ~hte
  THEN [t |-> t, iw |-> iw, exc |-> "TransactionException",
        out |-> "HEAD and top are not the same."]
  ELSE IF t.current_tree = tree /\ ~t.discard_changes
  THEN IF t.allow_conflicts \/ ~useIw \/ ~iw.conflicts
       THEN [t |-> t, iw |-> iw, exc |-> "none", out |-> ""]
       ELSE [t |-> t, iw |-> iw, exc |-> "TransactionException",
             out |-> "Need to resolve conflicts first"]
  ELSE IF ~useIw
  THEN [t |-> t, iw |-> iw, exc |-> "AssertionError", out |-> ""]
  ELSE LET r == IF t.discard_changes THEN IwCheckoutHard(iw, tree)
                ELSE IwCheckout(iw, t.current_tree, tree)
       IN IF r.exc = "none"
          THEN [t |-> [t EXCEPT !.current_tree = tree], iw |-> r.iw,
                exc |-> "none", out |-> ""]
          ELSE [t |-> t, iw |-> iw, exc |-> r.exc, out |-> ""]

\* A consistency check that lets every tombstone pass.
check_consistencyTombstonesPass(t, recs) ==
  LET remaining == Range(all_patches(t))
  IN \A pn \in DOMAIN t.patches :
       t.patches[pn] = None \/ pn \in remaining

\* StackTransaction.__check_consistency
check_consistency(t, recs) ==
  LET remaining == Range(all_patches(t))
  IN \A pn \in DOMAIN t.patches :
       IF t.patches[pn] = None THEN pn \in DOMAIN recs ELSE pn \in remaining

\* StackTransaction.abort(iw)
abort(t, iw, useIw, cache) ==
  IF useIw THEN checkout(t, iw, useIw, StackHead(cache).tree, TRUE, TRUE)
  ELSE [t |-> t, iw |-> iw, exc |-> "none", out |-> ""]

\* The first applied index whose patch satisfies p (0 when there is none):
\* the loop of pop_patches and delete_patches.
FirstMatch(applied, p) ==
  LET hits == {i \in 1..Len(applied) : applied[i] \in p}
  IN IF hits = {} THEN 0 ELSE CHOOSE i \in hits : \A j \in hits : i <= j

\* A pop_patches that forgets the patches it popped on the way.
pop_patchesDropsAbove(t, p) ==
  LET i == FirstMatch(t.applied, p)
      popped == IF i = 0 THEN <<>> ELSE SubSeq(t.applied, i, Len(t.applied))
      applied == IF i = 0 THEN t.applied ELSE SubSeq(t.applied, 1, i - 1)
      popped1 == Filter(popped, Range(popped) \ p)
      popped2 == Filter(popped, p)
  IN [t |-> [t EXCEPT !.applied = applied,
                      !.unapplied = popped2 \o t.unapplied],
      ret |-> popped1]

\* A pop_patches that puts the patches it was asked to pop first.
pop_patchesAskedFirst(t, p) ==
  LET i == FirstMatch(t.applied, p)
      popped == IF i = 0 THEN <<>> ELSE SubSeq(t.applied, i, Len(t.applied))
      applied == IF i = 0 THEN t.applied ELSE SubSeq(t.applied, 1, i - 1)
      popped1 == Filter(popped, Range(popped) \ p)
      popped2 == Filter(popped, p)
  IN [t |-> [t EXCEPT !.applied = applied,
                      !.unapplied = popped2 \o popped1 \o t.unapplied],
      ret |-> popped1]

\* StackTransaction.pop_patches(p), p given as the set of names it accepts.
pop_patches(t, p) ==
  LET i == FirstMatch(t.applied, p)
      popped == IF i = 0 THEN <<>> ELSE SubSeq(t.applied, i, Len(t.applied))
      applied == IF i = 0 THEN t.applied ELSE SubSeq(t.applied, 1, i - 1)
      popped1 == Filter(popped, Range(popped) \ p)
      popped2 == Filter(popped, p)
  IN [t |-> [t EXCEPT !.applied = applied,
                      !.unapplied = popped1 \o popped2 \o t.unapplied],
      ret |-> popped1]

\* A delete_patches that does not filter the unapplied list.
delete_patchesKeepUnapplied(t, p) ==
  LET all == all_patches(t)
      i == FirstMatch(t.applied, p)
      suffix == IF i = 0 THEN <<>> ELSE SubSeq(t.applied, i, Len(t.applied))
      applied == IF i = 0 THEN t.applied ELSE SubSeq(t.applied, 1, i - 1)
      popped == Filter(suffix, Range(suffix) \ p)
      dead == Range(all) \cap p
  IN [t |-> [t EXCEPT
               !.applied = applied,
               !.unapplied = popped \o t.unapplied,
               !.hidden = Filter(t.hidden, Range(t.hidden) \ p),
               !.patches = [pn \in DOMAIN t.patches \cup dead |->
                              IF pn \in dead THEN None ELSE t.patches[pn]]],
      ret |-> popped]

\* A delete_patches that does not filter the hidden list.
delete_patchesKeepHidden(t, p) ==
  LET all == all_patches(t)
      i == FirstMatch(t.applied, p)
      suffix == IF i = 0 THEN <<>> ELSE SubSeq(t.applied, i, Len(t.applied))
      applied == IF i = 0 THEN t.applied ELSE SubSeq(t.applied, 1, i - 1)
      popped == Filter(suffix, Range(suffix) \ p)
      dead == Range(all) \cap p
  IN [t |-> [t EXCEPT
               !.applied = applied,
               !.unapplied = popped \o Filter(t.unapplied, Range(t.unapplied) \ p),
               !.patches = [pn \in DOMAIN t.patches \cup dead |->
                              IF pn \in dead THEN None ELSE t.patches[pn]]],
      ret |-> popped]

\* StackTransaction.delete_patches(p)
delete_patches(t, p) ==
  LET all == all_patches(t)
      i == FirstMatch(t.applied, p)
      suffix == IF i = 0 THEN <<>> ELSE SubSeq(t.applied, i, Len(t.applied))
      applied == IF i = 0 THEN t.applied ELSE SubSeq(t.applied, 1, i - 1)
      popped == Filter(suffix, Range(suffix) \ p)
      dead == Range(all) \cap p
  IN [t |-> [t EXCEPT
               !.applied = applied,
               !.unapplied = popped \o Filter(t.unapplied, Range(t.unapplied) \ p),
               !.hidden = Filter(t.hidden, Range(t.hidden) \ p),
               !.patches = [pn \in DOMAIN t.patches \cup dead |->
                              IF pn \in dead THEN None ELSE t.patches[pn]]],
      ret |-> popped]

\* An update() that takes pn out of its list and does not append it to
\* applied.
updateLosesPatch(t, pn, comm) ==
  [t EXCEPT
     !.patches = IF comm # None THEN (pn :> comm) @@ t.patches ELSE t.patches,
     !.hidden = IF pn \in Range(t.hidden) THEN DelFirst(t.hidden, pn)
                ELSE t.hidden,
     !.unapplied = IF pn \in Range(t.hidden) THEN t.unapplied
                   ELSE DelFirst(t.unapplied, pn)]

\* An update() that appends pn to applied and leaves it in the list it
\* came from.
updateKeepsOrigin(t, pn, comm) ==
  [t EXCEPT
     !.patches = IF comm # None THEN (pn :> comm) @@ t.patches ELSE t.patches,
     !.applied = Append(t.applied, pn)]

\* The closure update() of push_patch, run at once or, after a conflict,
\* from run(): record the new commit, move pn from hidden or unapplied to
\* the end of applied.
update(t, pn, comm) ==
  [t EXCEPT
     !.patches = IF comm # None THEN (pn :> comm) @@ t.patches ELSE t.patches,
     !.hidden = IF pn \in Range(t.hidden) THEN DelFirst(t.hidden, pn)
                ELSE t.hidden,
     !.unapplied = IF pn \in Range(t.hidden) THEN t.unapplied
                   ELSE DelFirst(t.unapplied, pn),
     !.applied = Append(t.applied, pn)]

\* push_patch, the end of its "if not tree:" block: the outcome mg of
\* iw.merge(base, ours, theirs) after the checkout of ours succeeded.
push_worktree_merged(t, mg, ours) ==
  IF mg.exc = "none"
  THEN [t |-> [t EXCEPT !.current_tree = mg.iw.tree], iw |-> mg.iw,
        exc |-> "none", tree |-> mg.iw.tree, merge_conflict |-> FALSE,
        s |-> " (modified)"]
  ELSE IF mg.exc = "MergeConflictException"
  THEN [t |-> t, iw |-> mg.iw, exc |-> "none", tree |-> ours,
        merge_conflict |-> TRUE, s |-> " (conflict)"]
  ELSE [t |-> halt(t, "Index/worktree dirty"), iw |-> mg.iw,
        exc |-> "TransactionHalted", tree |-> None, merge_conflict |-> FALSE,
        s |-> ""]

\* push_patch, "self.__checkout(ours, iw, allow_bad_head = False)" has
\* ended as ck: halt when it found index or worktree dirty, else merge in
\* the worktree.
push_worktree(ck, base, ours, theirs) ==
  IF ck.exc = "CheckoutException"
  THEN [t |-> halt(ck.t, "Index/worktree dirty"), iw |-> ck.iw,
        exc |-> "TransactionHalted", tree |-> None, merge_conflict |-> FALSE,
        s |-> ""]
  ELSE IF ck.exc # "none"
  THEN [t |-> ck.t, iw |-> ck.iw, exc |-> ck.exc, tree |-> None,
        merge_conflict |-> FALSE, s |-> ""]
  ELSE push_worktree_merged(ck.t, IwMerge(ck.iw, base, ours, theirs), ours)

\* An "if not tree:" block that spills into the repository's index and
\* worktree whether they were given or not.
push_spillAlways(t, iw, pn, useIw, hte, tree, base, ours, theirs) ==
  IF tree # None
  THEN [t |-> t, iw |-> iw, exc |-> "none", tree |-> tree,
        merge_conflict |-> FALSE, s |-> ""]
  ELSE push_worktree(checkout(t, iw, TRUE, ours, FALSE, hte),
                     base, ours, theirs)

\* An "if not tree:" block that, without a worktree, settles for the new
\* parent's tree instead of halting.
push_spillTakesOurs(t, iw, pn, useIw, hte, tree, base, ours, theirs) ==
  IF tree # None
  THEN [t |-> t, iw |-> iw, exc |-> "none", tree |-> tree,
        merge_conflict |-> FALSE, s |-> ""]
  ELSE IF ~useIw
  THEN [t |-> t, iw |-> iw, exc |-> "none", tree |-> ours,
        merge_conflict |-> FALSE, s |-> ""]
  ELSE push_worktree(checkout(t, iw, useIw, ours, FALSE, hte),
                     base, ours, theirs)

\* push_patch, the block "if not tree:" after the merge in the temporary
\* index gave tree: what it leaves, exc # "none" when it raised.
push_spill(t, iw, pn, useIw, hte, tree, base, ours, theirs) ==
  IF tree # None
  THEN [t |-> t, iw |-> iw, exc |-> "none", tree |-> tree,
        merge_conflict |-> FALSE, s |-> ""]
  ELSE IF ~useIw
  THEN [t |-> halt(t, pn \o " does not apply cleanly"), iw |-> iw,
        exc |-> "TransactionHalted", tree |-> None, merge_conflict |-> FALSE,
        s |-> ""]
  ELSE push_worktree(checkout(t, iw, useIw, ours, FALSE, hte),
                     base, ours, theirs)

\* push_patch's test of parent, tree, author and message: the rebuilt
\* commit data differs from the patch's commit.
push_changed(orig_cd, cd) ==
  \/ cd.parents # orig_cd.parents
  \/ cd.tree # orig_cd.tree
  \/ cd.author # orig_cd.author
  \/ cd.message # orig_cd.message

\* push_patch's marker of the 'Pushed' message.
push_marker(cd, changed, w) ==
  IF ~w.merge_conflict /\ is_nochange(cd) THEN " (empty)"
  ELSE IF ~changed THEN " (unmodified)"
  ELSE w.s

\* push_patch's end, with the commit comm (or None) in hand: update the
\* lists, or defer that and halt after a merge conflict.
push_update(pn, cd, comm, s, w) ==
  IF w.merge_conflict
  THEN [t |-> halt([w.t EXCEPT !.allow_conflicts = TRUE,
                            !.conflicting_push = [pn |-> pn, comm |-> comm]],
                   "Merge conflict"),
        iw |-> w.iw, exc |-> "TransactionHalted", s |-> s,
        cd |-> cd, comm |-> comm]
  ELSE [t |-> update(w.t, pn, comm), iw |-> w.iw, exc |-> "none", s |-> s,
        cd |-> cd, comm |-> comm]

\* A push_patch that commits the rebuilt data whether it differs or not.
push_commitAlways(pn, now, orig_cd, cd, w) ==
  push_update(pn, cd, Commit(cd, now),
              push_marker(cd, push_changed(orig_cd, cd), w), w)

\* push_patch from "cd = cd.set_tree(tree)" on: commit the rebuilt data
\* when it differs from the patch's commit, then update the lists, or
\* defer that and halt after a merge conflict.
push_commit(pn, now, orig_cd, cd, w) ==
  push_update(pn, cd,
              IF push_changed(orig_cd, cd) THEN Commit(cd, now) ELSE None,
              push_marker(cd, push_changed(orig_cd, cd), w), w)

\* push_patch once the merge block has ended as w
push_merged(pn, now, orig_cd, cd, w) ==
  IF w.exc # "none"
  THEN [t |-> w.t, iw |-> w.iw, exc |-> w.exc, s |-> "",
        cd |-> None, comm |-> None]
  ELSE push_commit(pn, now, orig_cd, set_tree(cd, w.tree), w)

\* push_patch from the merge in the temporary index on: m is what
\* self.temp_index.merge(base, ours, theirs, self.temp_index_tree) returned.
push_index_merged(t, iw, pn, useIw, now, hte, orig_cd, cd, base, ours, theirs, m) ==
  push_merged(pn, now, orig_cd, cd,
              push_spill([t EXCEPT !.temp_index_tree = m.current, !.idx = m.idx],
                         iw, pn, useIw, hte, m.tree, base, ours, theirs))

\* StackTransaction.temp_index: the transaction's temporary index, made
\* (as an Index on a new file, which Index.__init__ deletes) at first use.
temp_index(t) ==
  IF t.temp_index = None
  THEN [t EXCEPT !.temp_index = [file |-> 1], !.idx = None]
  ELSE t

\* A push that takes the new parent's tree, not the old parent's, as the
\* base of the merge.
push_ontoBaseIsTop(t, iw, pn, useIw, now, hte, orig_cd, newparent) ==
  push_index_merged(temp_index(t), iw, pn, useIw, now, hte, orig_cd,
                    set_parent(set_committer(orig_cd, None), newparent),
                    newparent.tree, newparent.tree, orig_cd.tree,
                    IndexMerge(newparent.tree, newparent.tree,
                               orig_cd.tree, t.temp_index_tree,
                               temp_index(t).idx))

\* push_patch with the patch's commit data and the new parent in hand:
\* base is the old parent's tree, ours the new parent's, theirs the patch's.
push_onto(t, iw, pn, useIw, now, hte, orig_cd, newparent) ==
  push_index_merged(temp_index(t), iw, pn, useIw, now, hte, orig_cd,
                    set_parent(set_committer(orig_cd, None), newparent),
                    Parent(orig_cd).tree, newparent.tree, orig_cd.tree,
                    IndexMerge(Parent(orig_cd).tree, newparent.tree,
                               orig_cd.tree, t.temp_index_tree,
                               temp_index(t).idx))

\* StackTransaction.push_patch(pn, iw): now is the clock git stamps a new
\* commit with, hte is what stack.head_top_equal() answers.
\* Returns the transaction, the index+worktree, the exception raised
\* ("none" when it returns) and the marker of the 'Pushed' message.
push_patch(t, recs, iw, pn, useIw, now, hte) ==
  push_onto(t, iw, pn, useIw, now, hte, TransPatch(t, recs, pn), top(t, recs))

\* Length of the common prefix of two lists (the takewhile over zip)
RECURSIVE CommonPrefix(_, _)
CommonPrefix(xs, ys) ==
  IF xs = <<>> \/ ys = <<>> \/ Head(xs) # Head(ys) THEN 0
  ELSE 1 + CommonPrefix(Tail(xs), Tail(ys))

\* "for pn in applied[common:]: self.push_patch(pn, iw)": the pushes in
\* order, stopping at the first one that raises.
RECURSIVE push_all(_, _, _, _, _, _, _)
push_all(t, recs, iw, pns, useIw, now, hte) ==
  IF pns = <<>> THEN [t |-> t, iw |-> iw, exc |-> "none"]
  ELSE LET r == push_patch(t, recs, iw, Head(pns), useIw, now, hte)
       IN IF r.exc # "none" THEN [t |-> r.t, iw |-> r.iw, exc |-> r.exc]
          ELSE push_all(r.t, recs, r.iw, Tail(pns), useIw, now, hte)

\* A reorder_patches that leaves unapplied and hidden as its pops and
\* pushes left them.
reorder_patchesKeepsLists(t, recs, iw, applied, unapplied, hidden, useIw, now, hte) ==
  LET common == CommonPrefix(t.applied, applied)
      to_pop == Range(SubSeq(t.applied, common + 1, Len(t.applied)))
      t1 == pop_patches(t, to_pop).t
      r == push_all(t1, recs, iw, SubSeq(applied, common + 1, Len(applied)),
                    useIw, now, hte)
  IN IF r.exc # "none" THEN r
     ELSE IF r.t.applied # applied THEN [r EXCEPT !.exc = "AssertionError"]
     ELSE IF Range(r.t.unapplied \o r.t.hidden) # Range(unapplied \o hidden)
     THEN [r EXCEPT !.exc = "AssertionError"]
     ELSE r

\* A reorder_patches that leaves the first patch after the common prefix
\* applied (applied[common + 1:] for applied[common:]).
reorder_patchesPopsOneLess(t, recs, iw, applied, unapplied, hidden, useIw, now, hte) ==
  LET common == CommonPrefix(t.applied, applied)
      to_pop == Range(SubSeq(t.applied, common + 2, Len(t.applied)))
      t1 == pop_patches(t, to_pop).t
      r == push_all(t1, recs, iw, SubSeq(applied, common + 1, Len(applied)),
                    useIw, now, hte)
  IN IF r.exc # "none" THEN r
     ELSE IF r.t.applied # applied THEN [r EXCEPT !.exc = "AssertionError"]
     ELSE IF Range(r.t.unapplied \o r.t.hidden) # Range(unapplied \o hidden)
     THEN [r EXCEPT !.exc = "AssertionError"]
     ELSE [r EXCEPT !.t.unapplied = unapplied, !.t.hidden = hidden]

\* StackTransaction.reorder_patches(applied, unapplied, hidden, iw)
reorder_patches(t, recs, iw, applied, unapplied, hidden, useIw, now, hte) ==
  LET common == CommonPrefix(t.applied, applied)
      to_pop == Range(SubSeq(t.applied, common + 1, Len(t.applied)))
      t1 == pop_patches(t, to_pop).t
      r == push_all(t1, recs, iw, SubSeq(applied, common + 1, Len(applied)),
                    useIw, now, hte)
  IN IF r.exc # "none" THEN r
     ELSE IF r.t.applied # applied THEN [r EXCEPT !.exc = "AssertionError"]
     ELSE IF Range(r.t.unapplied \o r.t.hidden) # Range(unapplied \o hidden)
     THEN [r EXCEPT !.exc = "AssertionError"]
     ELSE [r EXCEPT !.t.unapplied = unapplied, !.t.hidden = hidden]

\* ------------------------------------------------------------ exit codes
STGIT_SUCCESS == 0
STGIT_CONFLICT == 3

\* ------------------------------------------------------------ state
VARIABLES
  gitRefs,     \* the refs as git stores them: ref -> commit
  refsCache,   \* Refs.__refs: None until first use, then ref -> commit
  patchRecs,   \* stack.patches: name -> commit, for the patches that exist
  patchorder,  \* stack.patchorder: [applied, unapplied, hidden]
  stackLog,    \* the stack log: entries [msg, head], oldest first
  iw,          \* the default index and worktree
  trans,       \* the StackTransaction object (None when there is none)
  pc,          \* where the command is: "none", "staging", "halted", a step
               \* of run(), "done", "raised", "crashed"
  run,         \* the arguments and locals of run()
  last,        \* the last call made on the transaction and how it ended
  pre,         \* the repository as it was when run() was called
  ext,         \* another tool has committed on the branch
  nops,        \* staging operations made so far
  objects,     \* the Repository's three ObjectCaches: sha1 -> handle
  index        \* an Index object used on its own: the tree its file holds
               \* and the tree the caller was last told it holds

\* The objects that only the specifications of single classes use.
unitVars == <<objects, index>>

vars == <<gitRefs, refsCache, patchRecs, patchorder, stackLog, iw, trans, pc,
          run, last, pre, ext, nops, objects, index>>

\* What is on disk apart from the log.
Disk == [head |-> gitRefs[BranchRef], recs |-> patchRecs, order |-> patchorder,
         iw |-> iw]

InitStacks ==
  { [recs |-> [pn \in {"a", "b", "c"} |-> CASE pn = "a" -> Ca [] pn = "b" -> Cb
                                             [] OTHER -> Cc],
     order |-> [applied |-> <<"a", "b", "c">>, unapplied |-> <<>>,
                hidden |-> <<>>]],
    [recs |-> [pn \in {"a", "b", "c"} |-> CASE pn = "a" -> Ca [] pn = "b" -> Cb
                                             [] OTHER -> CcOnBase],
     order |-> [applied |-> <<"a">>, unapplied |-> <<"c">>,
                hidden |-> <<"b">>]],
    [recs |-> [pn \in {"a", "b", "c"} |-> CASE pn = "a" -> Ca [] pn = "b" -> Cb
                                             [] OTHER -> Cc],
     order |-> [applied |-> <<>>, unapplied |-> <<"a", "b", "c">>,
                hidden |-> <<>>]] }

\* The head of a stack whose head and top agree.
TopOf(st) ==
  IF st.order.applied # <<>> THEN st.recs[Last(st.order.applied)] ELSE C0

\* clean; a local change in f; an unresolved conflict in the index
InitIw(tree) ==
  { [tree |-> tree, dirty |-> {}, conflicts |-> FALSE],
    [tree |-> tree, dirty |-> {"f"}, conflicts |-> FALSE],
    [tree |-> tree, dirty |-> {}, conflicts |-> TRUE] }

NoRun == [useIw |-> FALSE, set_head |-> FALSE, allow_bad_head |-> FALSE,
          new_head |-> None, old_applied |-> <<>>, todo |-> {},
          pass |-> 0, steps |-> <<>>, log |-> <<>>, halted |-> FALSE]

NoCall == [op |-> "none", exc |-> "none", out |-> ""]

\* Repository.__init__: three empty caches; no handle was made yet.
NoObjects == [blob |-> << >>, tree |-> << >>, commit |-> << >>, made |-> 0]

\* Index.__init__ on a temporary file: delete() leaves no index file.
NoIndex == [idx |-> None, current |-> None]

Init ==
  \E st \in InitStacks :
    /\ gitRefs = (BranchRef :> TopOf(st))
    /\ refsCache = None
    /\ patchRecs = st.recs
    /\ patchorder = st.order
    /\ stackLog = << [msg |-> "start of log", head |-> TopOf(st)] >>
    /\ iw \in InitIw(TopOf(st).tree)
    /\ trans = None
    /\ pc = "none"
    /\ run = NoRun
    /\ last = NoCall
    /\ pre = None
    /\ ext = FALSE
    /\ nops = 0
    /\ objects = NoObjects
    /\ index = NoIndex

\* ------------------------------------------------------------ environment
\* Another tool moves the branch (git commit): git's ref changes, this
\* stack does not.  Once, before the command starts.
ExternalCommitOnBranch ==
  /\ ~ext
  /\ pc = "none"
  /\ ext' = TRUE
  /\ gitRefs' = (BranchRef :> ExternalCommit(gitRefs[BranchRef])) @@ gitRefs
  /\ UNCHANGED <<refsCache, patchRecs, patchorder, stackLog, iw, trans, pc,
                 run, last, pre, nops>>
  /\ UNCHANGED unitVars

\* ------------------------------------------------------------ construction
\* The flag combinations a transaction is constructed with:
\* (discard_changes, allow_conflicts, allow_bad_head).
TransArgs ==
  { [discard_changes |-> FALSE, allow_conflicts |-> FALSE, allow_bad_head |-> FALSE],
    [discard_changes |-> TRUE, allow_conflicts |-> FALSE, allow_bad_head |-> FALSE],
    [discard_changes |-> FALSE, allow_conflicts |-> TRUE, allow_bad_head |-> FALSE],
    [discard_changes |-> FALSE, allow_conflicts |-> FALSE, allow_bad_head |-> TRUE] }

\* An __init__ that checks head against top only under allow_bad_head.
NewFlagInverted ==
  /\ pc = "none"
  /\ \E a \in TransArgs :
       LET cache == IF refsCache = None THEN gitRefs ELSE refsCache
           hte == head_top_equal(patchRecs, patchorder, cache)
       IN /\ refsCache' = cache
          /\ trans' = NewTransaction(patchRecs, patchorder, cache,
                                     a.discard_changes, a.allow_conflicts)
          /\ IF a.allow_bad_head /\ ~hte
             THEN /\ pc' = "raised"
                  /\ last' = [op |-> "__init__", exc |-> "TransactionException",
                              out |-> "HEAD and top are not the same.",
                              allow_bad_head |-> a.allow_bad_head]
             ELSE /\ pc' = "staging"
                  /\ last' = [op |-> "__init__", exc |-> "none", out |-> "",
                              allow_bad_head |-> a.allow_bad_head]
  /\ UNCHANGED <<gitRefs, patchRecs, patchorder, stackLog, iw, run, pre, ext,
                 nops>>
  /\ UNCHANGED unitVars

\* StackTransaction.__init__; reading stack.head loads the ref cache.
New ==
  /\ pc = "none"
  /\ \E a \in TransArgs :
       LET cache == IF refsCache = None THEN gitRefs ELSE refsCache
           hte == head_top_equal(patchRecs, patchorder, cache)
       IN /\ refsCache' = cache
          /\ trans' = NewTransaction(patchRecs, patchorder, cache,
                                     a.discard_changes, a.allow_conflicts)
          /\ IF ~a.allow_bad_head /\ ~hte
             THEN /\ pc' = "raised"
                  /\ last' = [op |-> "__init__", exc |-> "TransactionException",
                              out |-> "HEAD and top are not the same.",
                              allow_bad_head |-> a.allow_bad_head]
             ELSE /\ pc' = "staging"
                  /\ last' = [op |-> "__init__", exc |-> "none", out |-> "",
                              allow_bad_head |-> a.allow_bad_head]
  /\ UNCHANGED <<gitRefs, patchRecs, patchorder, stackLog, iw, run, pre, ext,
                 nops>>
  /\ UNCHANGED unitVars

\* ------------------------------------------------------------ staging
HeadTopEqual == head_top_equal(patchRecs, patchorder, refsCache)

\* A staging operation can be made.
Staging == pc = "staging" /\ nops < MaxOps

\* where a call that ended with exc leaves the command
AfterCall(exc) ==
  IF exc = "none" THEN "staging"
  ELSE IF exc = "TransactionHalted" THEN "halted" ELSE "raised"

PopPatches ==
  /\ Staging
  /\ \E p \in SUBSET PatchNames :
       LET r == pop_patches(trans, p)
       IN /\ trans' = r.t
          /\ last' = [op |-> "pop_patches", p |-> p, ret |-> r.ret,
                      exc |-> "none", out |-> ""]
  /\ nops' = nops + 1
  /\ UNCHANGED <<gitRefs, refsCache, patchRecs, patchorder, stackLog, iw, pc,
                 run, pre, ext>>
  /\ UNCHANGED unitVars

DeletePatches ==
  /\ Staging
  /\ \E p \in SUBSET PatchNames :
       LET r == delete_patches(trans, p)
       IN /\ trans' = r.t
          /\ last' = [op |-> "delete_patches", p |-> p, ret |-> r.ret,
                      exc |-> "none", out |-> ""]
  /\ nops' = nops + 1
  /\ UNCHANGED <<gitRefs, refsCache, patchRecs, patchorder, stackLog, iw, pc,
                 run, pre, ext>>
  /\ UNCHANGED unitVars

PushPatch ==
  /\ Staging
  /\ \E pn \in Range(trans.unapplied \o trans.hidden), useIw \in BOOLEAN,
        now \in Stamps :
       LET r == push_patch(trans, patchRecs, iw, pn, useIw, now, HeadTopEqual)
       IN /\ trans' = r.t
          /\ iw' = r.iw
          /\ pc' = AfterCall(r.exc)
          /\ last' = [op |-> "push_patch", pn |-> pn, useIw |-> useIw,
                      exc |-> r.exc, out |-> r.s, cd |-> r.cd,
                      comm |-> r.comm]
  /\ nops' = nops + 1
  /\ UNCHANGED <<gitRefs, refsCache, patchRecs, patchorder, stackLog, run, pre,
                 ext>>
  /\ UNCHANGED unitVars

\* "trans.head = val" (__set_head): the command names the head to commit,
\* whatever the top of the stack is.
SetHead ==
  /\ Staging
  /\ \E val \in {C0, Cb} : trans' = [trans EXCEPT !.bad_head = val]
  /\ last' = [op |-> "head", exc |-> "none", out |-> ""]
  /\ nops' = nops + 1
  /\ UNCHANGED <<gitRefs, refsCache, patchRecs, patchorder, stackLog, iw, pc,
                 run, pre, ext>>
  /\ UNCHANGED unitVars

\* The orders reorder_patches is asked for: an applied list without
\* repetition over the transaction's patches, and short unapplied and hidden
\* lists over the other patches, repetitions and omissions included.
ReorderArgs(t) ==
  LET names == Range(all_patches(t))
  IN UNION { { [applied |-> a, unapplied |-> u, hidden |-> h] :
                 u \in SeqsUpTo(names \ Range(a), MaxListLen),
                 h \in SeqsUpTo(names \ Range(a), MaxListLen) } :
             a \in {x \in SeqsUpTo(names, Cardinality(names)) : NoDup(x)} }

\* A reordering command makes this one call on its transaction.
ReorderPatches ==
  /\ Staging /\ nops = 0
  /\ \E a \in ReorderArgs(trans), useIw \in BOOLEAN, now \in Stamps :
       LET r == reorder_patches(trans, patchRecs, iw, a.applied, a.unapplied,
                                a.hidden, useIw, now, HeadTopEqual)
       IN /\ trans' = r.t
          /\ iw' = r.iw
          /\ pc' = AfterCall(r.exc)
          /\ last' = [op |-> "reorder_patches", applied |-> a.applied,
                      exc |-> r.exc, out |-> ""]
  /\ nops' = MaxOps
  /\ UNCHANGED <<gitRefs, refsCache, patchRecs, patchorder, stackLog, run, pre,
                 ext>>
  /\ UNCHANGED unitVars

\* The command gives the transaction up and calls abort(iw) or abort().
Abort ==
  /\ pc \in {"staging", "halted"}
  /\ \E useIw \in BOOLEAN :
       LET r == abort(trans, iw, useIw, refsCache)
       IN /\ trans' = r.t
          /\ iw' = r.iw
          /\ last' = [op |-> "abort", useIw |-> useIw, exc |-> r.exc,
                      out |-> r.out]
  /\ pc' = "aborted"
  /\ UNCHANGED <<gitRefs, refsCache, patchRecs, patchorder, stackLog, run, pre,
                 ext, nops>>
  /\ UNCHANGED unitVars

\* ------------------------------------------------------------ run()
\* run() is modelled one mutating step at a time, so that a failure of a
\* step and a crash between two steps are states of the model.
RunSteps == {"log_external_mods", "checkout", "set_head", "write_patches",
             "write_order", "log_entry"}

\* The calls of run(iw, set_head, allow_bad_head) that behave differently:
\* iw is only used under set_head, allow_bad_head only by the checkout.
RunArgs ==
  { [useIw |-> FALSE, set_head |-> FALSE, allow_bad_head |-> FALSE],
    [useIw |-> FALSE, set_head |-> TRUE, allow_bad_head |-> FALSE],
    [useIw |-> TRUE, set_head |-> TRUE, allow_bad_head |-> FALSE],
    [useIw |-> TRUE, set_head |-> TRUE, allow_bad_head |-> TRUE] }

\* An order of steps that moves the branch ref before the checkout.
StepAfterRefFirst(step, r, todo) ==
  CASE step = "log_external_mods" ->
         IF r.set_head THEN "set_head"
         ELSE IF todo = {} THEN "write_order" ELSE "write_patches"
    [] step = "set_head" /\ r.useIw /\ "checkout" \notin Range(r.steps) ->
         "checkout"
    [] step \in {"set_head", "checkout", "write_patches"} ->
         IF todo = {} THEN "write_order" ELSE "write_patches"
    [] step = "write_order" -> "log_entry"
    [] OTHER -> "done"

\* The order of run()'s steps: the step that follows `step` when it
\* succeeded; todo is the set of override entries still to write.
StepAfter(step, r, todo) ==
  CASE step = "log_external_mods" ->
         IF r.set_head THEN (IF r.useIw THEN "checkout" ELSE "set_head")
         ELSE IF todo = {} THEN "write_order" ELSE "write_patches"
    [] step = "checkout" -> "set_head"
    [] step \in {"set_head", "write_patches"} ->
         IF todo = {} THEN "write_order" ELSE "write_patches"
    [] step = "write_order" -> "log_entry"
    [] OTHER -> "done"

\* run() is called: its arguments are bound and __check_consistency runs.
Run ==
  /\ pc \in {"staging", "halted"}
  /\ \E a \in RunArgs :
       run' = [NoRun EXCEPT !.useIw = a.useIw, !.set_head = a.set_head,
                            !.allow_bad_head = a.allow_bad_head, !.pass = 1,
                            !.log = stackLog, !.halted = (pc = "halted")]
  /\ pre' = Disk
  /\ IF check_consistency(trans, patchRecs)
     THEN /\ pc' = "log_external_mods"
          /\ last' = [op |-> "run", exc |-> "none", out |-> ""]
     ELSE /\ pc' = "raised"
          /\ last' = [op |-> "run", exc |-> "AssertionError", out |-> ""]
  /\ nops' = 0
  /\ UNCHANGED <<gitRefs, refsCache, patchRecs, patchorder, stackLog, iw,
                 trans, ext>>
  /\ UNCHANGED unitVars

\* What is kept of run()'s locals once run() has ended.
Ended(r) == [NoRun EXCEPT !.useIw = r.useIw, !.set_head = r.set_head,
                          !.new_head = r.new_head, !.steps = r.steps,
                          !.log = r.log, !.halted = r.halted]

\* run() ends with an exception raised at `at`.
RaiseAt(exc, out, at) ==
  /\ pc' = "raised"
  /\ last' = [op |-> "run", exc |-> exc, out |-> out, at |-> at]
  /\ run' = Ended(run)

\* run() ends with an exception raised by the step it is at.
Raise(exc, out) == RaiseAt(exc, out, pc)

\* A git command run by the step exits with an error (RunException); the
\* transaction object is of no further use.
GitFails ==
  /\ Raise("RunException", "")
  /\ trans' = None

\* log.log_external_mods(stack), then "new_head = self.head".  The log
\* gets a marker when the head it last recorded is not the stack's head.
LogExternalMods ==
  /\ pc = "log_external_mods"
  /\ \E ok \in BOOLEAN :
       IF ok
       THEN /\ stackLog' =
                 IF Last(stackLog).head = StackHead(refsCache) THEN stackLog
                 ELSE Append(stackLog, [msg |-> "external modifications",
                                        head |-> StackHead(refsCache)])
            /\ run' = [run EXCEPT !.new_head = head(trans, patchRecs),
                                  !.old_applied = patchorder.applied,
                                  !.todo = DOMAIN trans.patches]
            /\ pc' = StepAfter(pc, run, DOMAIN trans.patches)
            /\ UNCHANGED <<last, trans>>
       ELSE /\ GitFails
            /\ UNCHANGED stackLog
  /\ UNCHANGED <<gitRefs, refsCache, patchRecs, patchorder, iw, pre, ext, nops>>
  /\ UNCHANGED unitVars

\* "self.__checkout(new_head.data.tree, iw, allow_bad_head)", and on a
\* CheckoutException "self.abort(iw); self.__abort()".
RunCheckout ==
  /\ pc = "checkout"
  /\ LET ck == checkout(trans, iw, TRUE, run.new_head.tree,
                        run.allow_bad_head, HeadTopEqual)
         ab == abort(trans, iw, TRUE, refsCache)
     IN IF ck.exc = "none"
        THEN /\ trans' = ck.t
             /\ iw' = ck.iw
             /\ run' = [run EXCEPT !.steps = Append(@, "checkout")]
             /\ pc' = StepAfter(pc, run, run.todo)
             /\ last' = last
        ELSE IF ck.exc = "CheckoutException"
        THEN /\ trans' = ab.t
             /\ iw' = ab.iw
             /\ IF ab.exc = "none"
                THEN RaiseAt("TransactionException",
                             "Command aborted (all changes rolled back)",
                             "abort")
                ELSE RaiseAt(ab.exc, ab.out, "abort")
        ELSE /\ trans' = ck.t
             /\ iw' = ck.iw
             /\ Raise(ck.exc, ck.out)
  /\ UNCHANGED <<gitRefs, refsCache, patchRecs, patchorder, stackLog, pre, ext,
                 nops>>
  /\ UNCHANGED unitVars

\* "self.__stack.set_head(new_head, self.__msg)": Branch.set_head, Refs.set.
\* update-ref, when Refs.set runs it, can also fail for a reason of its own
\* (a lock, the disk).
RunSetHead ==
  /\ pc = "set_head"
  /\ \E ok \in BOOLEAN :
       LET r == RefsSet(gitRefs, refsCache, BranchRef, run.new_head)
       IN IF (ok \/ RefsGet(refsCache, BranchRef) = run.new_head)
             /\ r.exc = "none"
          THEN /\ gitRefs' = r.git
               /\ refsCache' = r.cache
               /\ run' = [run EXCEPT !.steps = Append(@, "set_head")]
               /\ pc' = StepAfter(pc, run, run.todo)
               /\ UNCHANGED <<last, trans>>
          ELSE /\ GitFails
               /\ UNCHANGED <<gitRefs, refsCache>>
  /\ UNCHANGED <<patchRecs, patchorder, stackLog, iw, pre, ext, nops>>
  /\ UNCHANGED unitVars

\* One round of the loop of write(): an override entry is written to the
\* stack's patch records (a dict is walked in no particular order).
WritePatch ==
  /\ pc = "write_patches"
  /\ \E pn \in run.todo, ok \in BOOLEAN :
       LET commit == trans.patches[pn]
           todo == run.todo \ {pn}
       IN IF ok
          THEN /\ patchRecs' =
                    IF pn \in DOMAIN patchRecs /\ commit = None
                    THEN [q \in DOMAIN patchRecs \ {pn} |-> patchRecs[q]]
                    ELSE (pn :> commit) @@ patchRecs
               /\ run' = [run EXCEPT !.todo = todo,
                                     !.steps = Append(@, "patch")]
               /\ pc' = StepAfter(pc, run, todo)
               /\ UNCHANGED <<last, trans>>
          ELSE /\ GitFails
               /\ UNCHANGED patchRecs
  /\ UNCHANGED <<gitRefs, refsCache, patchorder, stackLog, iw, pre, ext, nops>>
  /\ UNCHANGED unitVars

\* "self.__stack.patchorder.applied = self.__applied" and the two
\* assignments after it
WriteOrder ==
  /\ pc = "write_order"
  /\ patchorder' = [applied |-> trans.applied, unapplied |-> trans.unapplied,
                    hidden |-> trans.hidden]
  /\ run' = [run EXCEPT !.steps = Append(@, "order")]
  /\ pc' = StepAfter(pc, run, run.todo)
  /\ UNCHANGED <<gitRefs, refsCache, patchRecs, stackLog, iw, trans, last, pre,
                 ext, nops>>
  /\ UNCHANGED unitVars

\* A continuation that applies the deferred update on top of the override
\* map of the first pass.
run_conflicting_pushKeepsMap(t) ==
  update(t, t.conflicting_push.pn, t.conflicting_push.comm)

\* run() after the first pass, "if self.__conflicting_push != None": a
\* fresh override map, then the update() that push_patch deferred.
run_conflicting_push(t) ==
  update([t EXCEPT !.patches = << >>], t.conflicting_push.pn,
         t.conflicting_push.comm)

\* The message write() is called with in each pass.
write_msg(pass) == IF pass = 1 THEN Msg ELSE Msg \o " (CONFLICT)"

\* "log.log_entry(self.__stack, msg)" ends a pass of write().  After the
\* first pass a conflicting push is applied to a fresh override map and
\* written by a second pass; after the last pass run() returns its code.
LogEntry ==
  /\ pc = "log_entry"
  /\ \E ok \in BOOLEAN :
       IF ok
       THEN /\ stackLog' =
                 Append(stackLog,
                        [msg |-> write_msg(run.pass),
                         head |-> StackHead(refsCache)])
            /\ IF run.pass = 1 /\ trans.conflicting_push # None
               THEN LET t2 == run_conflicting_push(trans)
                    IN /\ trans' = t2
                       /\ run' = [run EXCEPT !.pass = 2,
                                             !.todo = DOMAIN t2.patches,
                                             !.steps = Append(@, "log")]
                       /\ pc' = StepAfter("set_head", run, DOMAIN t2.patches)
                       /\ last' = last
               ELSE /\ trans' = trans
                    /\ run' = [run EXCEPT !.steps = Append(@, "log")]
                    /\ pc' = StepAfter(pc, run, run.todo)
                    /\ last' = [op |-> "run", exc |-> "none", out |-> "",
                                ret |-> IF trans.error # NoError
                                        THEN STGIT_CONFLICT ELSE STGIT_SUCCESS]
       ELSE /\ GitFails
            /\ UNCHANGED stackLog
  /\ UNCHANGED <<gitRefs, refsCache, patchRecs, patchorder, iw, pre, ext, nops>>
  /\ UNCHANGED unitVars

\* The process dies while run() is executing: what it held in memory is
\* gone, what it wrote stays.
Crash ==
  /\ pc \in RunSteps
  /\ pc' = "crashed"
  /\ trans' = None
  /\ refsCache' = None
  /\ run' = Ended(run)
  /\ last' = [op |-> "run", exc |-> "crash", out |-> ""]
  /\ UNCHANGED <<gitRefs, patchRecs, patchorder, stackLog, iw, pre, ext, nops>>
  /\ UNCHANGED unitVars

Next ==
  \/ ExternalCommitOnBranch
  \/ New
  \/ PopPatches
  \/ DeletePatches
  \/ PushPatch
  \/ ReorderPatches
  \/ SetHead
  \/ Abort
  \/ Run
  \/ LogExternalMods
  \/ RunCheckout
  \/ RunSetHead
  \/ WritePatch
  \/ WriteOrder
  \/ LogEntry
  \/ Crash

Spec == Init /\ [][Next]_vars

\* ------------------------------------------------------------ Refs alone
\* The Refs accessor used on its own, next to other processes that write
\* refs of the same repository at any time.
RefNames == {BranchRef, "refs/heads/topic"}
RefCommits == {C0, Ca, Cb}

\* "if self.__refs is None: self.__cache_refs()": git show-ref lists every
\* ref of the repository.
CacheRefs(cache, git) == IF cache = None THEN git ELSE cache

\* "old_sha1 = self.__refs.get(ref, '0' * 40)"
OldSha1(cache, ref) == IF ref \in DOMAIN cache THEN cache[ref] ELSE Zero

\* Refs.get(ref)
RefsGetCall ==
  /\ \E ref \in RefNames :
       LET cache == CacheRefs(refsCache, gitRefs)
       IN /\ refsCache' = cache
          /\ last' = IF ref \in DOMAIN cache
                     THEN [op |-> "get", ref |-> ref, exc |-> "none",
                           out |-> "", ret |-> RefsGet(cache, ref)]
                     ELSE [op |-> "get", ref |-> ref, exc |-> "KeyError",
                           out |-> "", ret |-> Zero]
  /\ UNCHANGED <<gitRefs, patchRecs, patchorder, stackLog, iw, trans, pc, run,
                 pre, ext, nops>>
  /\ UNCHANGED unitVars

\* Refs.set(ref, commit, msg); update-ref, when it runs, can also fail for
\* a reason of its own.
RefsSetCall ==
  /\ \E ref \in RefNames, commit \in RefCommits, ok \in BOOLEAN :
       LET cache == CacheRefs(refsCache, gitRefs)
           old == OldSha1(cache, ref)
           r == RefsSet(gitRefs, cache, ref, commit)
       IN IF ok \/ old = commit \/ r.exc # "none"
          THEN /\ gitRefs' = r.git
               /\ refsCache' = r.cache
               /\ last' = [op |-> "set", ref |-> ref, commit |-> commit,
                           old |-> old, exc |-> r.exc, out |-> ""]
          ELSE /\ gitRefs' = gitRefs
               /\ refsCache' = cache
               /\ last' = [op |-> "set", ref |-> ref, commit |-> commit,
                           old |-> old, exc |-> "RunException", out |-> ""]
  /\ UNCHANGED <<patchRecs, patchorder, stackLog, iw, trans, pc, run, pre, ext,
                 nops>>
  /\ UNCHANGED unitVars

\* Another process creates or moves a ref (git update-ref, git commit).
RefsExternal ==
  /\ \E ref \in RefNames, commit \in RefCommits :
       /\ GitValue(gitRefs, ref) # commit
       /\ gitRefs' = (ref :> commit) @@ gitRefs
       /\ last' = [op |-> "external", ref |-> ref, commit |-> commit,
                   exc |-> "none", out |-> ""]
  /\ UNCHANGED <<refsCache, patchRecs, patchorder, stackLog, iw, trans, pc,
                 run, pre, ext, nops>>
  /\ UNCHANGED unitVars

RefsNext ==
  \/ RefsGetCall
  \/ RefsSetCall
  \/ RefsExternal

RefsSpec == Init /\ [][RefsNext]_vars

\* ------------------------------------------------------------ object handles
\* The Repository's object lookups used on their own.
ObjTypes == {"blob", "tree", "commit"}
Sha1s == {"s1", "s2"}
\* Handles one repository makes; three types of two objects need six.
MaxHandles == 6

\* "Blob(self, sha1)", "Tree(self, sha1)", "Commit(self, sha1)": a new
\* Python object, the id-th this repository made.
NewHandle(type, sha1, id) == [type |-> type, sha1 |-> sha1, id |-> id]

\* An ObjectCache that creates a handle at every lookup.
ObjectCacheGetAlwaysCreates(cache, name, fresh) ==
  [cache |-> (name :> fresh) @@ cache, ret |-> fresh, created |-> TRUE]

\* ObjectCache.__getitem__(name); fresh is what self.__create(name) would
\* return.
ObjectCacheGet(cache, name, fresh) ==
  IF name \notin DOMAIN cache
  THEN [cache |-> (name :> fresh) @@ cache, ret |-> fresh, created |-> TRUE]
  ELSE [cache |-> cache, ret |-> cache[name], created |-> FALSE]

\* A lookup in the cache of the type, called through op.
ObjLookup(op, type, sha1) ==
  LET r == ObjectCacheGet(objects[type], sha1,
                          NewHandle(type, sha1, objects.made + 1))
  IN /\ r.created => objects.made < MaxHandles
     /\ objects' = [objects EXCEPT ![type] = r.cache,
                                   !.made = IF r.created THEN @ + 1 ELSE @]
     /\ last' = [op |-> op, type |-> type, sha1 |-> sha1, ret |-> r.ret,
                 exc |-> "none", out |-> ""]
     /\ UNCHANGED <<gitRefs, refsCache, patchRecs, patchorder, stackLog, iw,
                    trans, pc, run, pre, ext, nops, index>>

\* Repository.get_blob(sha1)
GetBlob == \E sha1 \in Sha1s : ObjLookup("get_blob", "blob", sha1)

\* Repository.get_tree(sha1)
GetTree == \E sha1 \in Sha1s : ObjLookup("get_tree", "tree", sha1)

\* Repository.get_commit(sha1)
GetCommit == \E sha1 \in Sha1s : ObjLookup("get_commit", "commit", sha1)

\* Repository.get_object(type, sha1)
GetObject ==
  \E type \in ObjTypes, sha1 \in Sha1s : ObjLookup("get_object", type, sha1)

\* Repository.commit(objectdata): BlobData, TreeData and CommitData write
\* the object with git, which names it sha1, and return get_<type>(sha1).
RepositoryCommit ==
  \E type \in ObjTypes, sha1 \in Sha1s : ObjLookup("commit", type, sha1)

ObjNext ==
  \/ GetBlob
  \/ GetTree
  \/ GetCommit
  \/ GetObject
  \/ RepositoryCommit

ObjSpec == Init /\ [][ObjNext]_vars

\* ------------------------------------------------------------ index merges
\* Index.merge used on its own, on a temporary index.
MergeTrees == {C0.tree, Ca.tree, Cb.tree, Cc.tree}

\* Index.merge(base, ours, theirs, current): the caller passes no hint or
\* the tree the previous merge said the index holds.
IndexMergeCall ==
  \E base, ours, theirs \in MergeTrees, current \in {None, index.current} :
    LET r == IndexMerge(base, ours, theirs, current, index.idx)
    IN /\ index' = [idx |-> r.idx, current |-> r.current]
       /\ last' = [op |-> "merge", base |-> base, ours |-> ours,
                   theirs |-> theirs, current |-> current, tree |-> r.tree,
                   now |-> r.current, cmds |-> r.cmds,
                   exc |-> "none", out |-> ""]
       /\ UNCHANGED <<gitRefs, refsCache, patchRecs, patchorder, stackLog, iw,
                      trans, pc, run, pre, ext, nops, objects>>

MergeNext == IndexMergeCall

MergeSpec == Init /\ [][MergeNext]_vars

\* ------------------------------------------------------------ pop and push back
\* A command that pops one applied patch and pushes back what came off.

\* pop_patches(lambda pn: pn == x) for an applied patch x, as the first
\* operation of the transaction.
PopOne ==
  /\ nops = 0
  /\ PopPatches
  /\ \E x \in Range(patchorder.applied) : last'.p = {x}

\* push_patch of the patch that followed the staged top in the stack's
\* applied list: x first, then the patches that were above it, in order.
PushBack ==
  /\ nops >= 1
  /\ Len(trans.applied) < Len(patchorder.applied)
  /\ PushPatch
  /\ last'.pn = patchorder.applied[Len(trans.applied) + 1]

PopPushNext ==
  \/ ExternalCommitOnBranch
  \/ New
  \/ PopOne
  \/ PushBack

PopPushSpec == Init /\ [][PopPushNext]_vars

\* ------------------------------------------------------------ reorder twice
\* A command that reorders the stack and then reorders it again on the
\* same transaction.

\* The orders that place every patch of the transaction once.
Rearrangements(t) ==
  LET names == Range(all_patches(t))
  IN {a \in ReorderArgs(t) :
        /\ NoDup(a.applied \o a.unapplied \o a.hidden)
        /\ Range(a.applied \o a.unapplied \o a.hidden) = names}

\* reorder_patches(applied, unapplied, hidden, iw) with one of the orders
\* in args.
ReorderCallOf(args) ==
  /\ pc = "staging"
  /\ \E a \in args, useIw \in BOOLEAN, now \in Stamps :
       LET r == reorder_patches(trans, patchRecs, iw, a.applied, a.unapplied,
                                a.hidden, useIw, now, HeadTopEqual)
       IN /\ trans' = r.t
          /\ iw' = r.iw
          /\ pc' = AfterCall(r.exc)
          /\ last' = [op |-> "reorder_patches", applied |-> a.applied,
                      unapplied |-> a.unapplied, hidden |-> a.hidden,
                      useIw |-> useIw, now |-> now,
                      exc |-> r.exc, out |-> ""]
  /\ UNCHANGED <<gitRefs, refsCache, patchRecs, patchorder, stackLog, run, pre,
                 ext>>
  /\ UNCHANGED unitVars

\* reorder_patches with a rearrangement of the transaction's patches.
ReorderCall ==
  /\ ReorderCallOf(Rearrangements(trans))
  /\ nops' = nops + 1

\* The first reorder_patches, called without the index+worktree: its
\* pushes merge in the temporary index or halt.
ReorderFirst ==
  /\ nops = 0
  /\ ReorderCall
  /\ ~last'.useIw

\* A second reorder_patches on the transaction the first one returned to.
ReorderAgain ==
  /\ nops = 1
  /\ ReorderCall

\* StackTransaction(stack, msg): the flags at their defaults.
NewDefault ==
  /\ New
  /\ ~last'.allow_bad_head
  /\ ~trans'.discard_changes
  /\ ~trans'.allow_conflicts

ReorderNext ==
  \/ NewDefault
  \/ ReorderFirst
  \/ ReorderAgain

ReorderSpec == Init /\ [][ReorderNext]_vars

\* ------------------------------------------------------------ delete everything
\* A command that deletes every patch and runs the transaction.

\* delete_patches(lambda pn: True) as the transaction's only operation.
DeleteAll ==
  /\ nops = 0
  /\ DeletePatches
  /\ last'.p = PatchNames

\* run() right after it.
RunAfterDelete ==
  /\ last.op = "delete_patches"
  /\ Run

DeleteAllNext ==
  \/ ExternalCommitOnBranch
  \/ New
  \/ DeleteAll
  \/ RunAfterDelete
  \/ LogExternalMods
  \/ RunCheckout
  \/ RunSetHead
  \/ WritePatch
  \/ WriteOrder
  \/ LogEntry
  \/ Crash

DeleteAllSpec == Init /\ [][DeleteAllNext]_vars

\* ------------------------------------------------------------ staging alone
\* A transaction that is constructed and staged, and not run: the staging
\* operations in any order, or the one call of a reordering command.

\* reorder_patches with any order lists, the one call a reordering
\* command makes.
ReorderAny ==
  /\ Staging /\ nops = 0
  /\ ReorderCallOf(ReorderArgs(trans))
  /\ nops' = MaxOps

StagingNext ==
  \/ ExternalCommitOnBranch
  \/ New
  \/ PopPatches
  \/ DeletePatches
  \/ PushPatch
  \/ SetHead
  \/ ReorderAny

StagingSpec == Init /\ [][StagingNext]_vars

\* ------------------------------------------------------------ Branch.create
\* Branch.create used on its own, next to other processes that write refs.
BranchNames == {"master", "topic"}

\* Branch.__ref
BranchRefOf(name) == "refs/heads/" \o name

\* Commit.sha1, for the commits a branch is created at.
Sha1(commit) ==
  CASE commit = C0 -> "c0c0c0"
    [] commit = Ca -> "cacaca"
    [] OTHER -> "cbcbcb"

\* Branch.create(repository, name, create_at) with the ref cache loaded:
\* Branch(repository, name) reads the head through the cache; the git
\* command run is "git branch <create_at.sha1>", which makes a branch
\* called by that sha1 at HEAD (ok) or exits with an error; the cache is
\* not read again from git before the final Branch(repository, name).
BranchCreate(git, cache, name, create_at, ok) ==
  IF BranchRefOf(name) \in DOMAIN cache
  THEN [git |-> git, exc |-> "BranchException",
        out |-> name \o ": branch already exists", ret |-> None]
  ELSE IF create_at = None
  THEN [git |-> git, exc |-> "AttributeError", out |-> "", ret |-> None]
  ELSE IF ~ok \/ BranchRefOf(Sha1(create_at)) \in DOMAIN git
  THEN [git |-> git, exc |-> "RunException", out |-> "", ret |-> None]
  ELSE IF BranchRefOf(name) \in DOMAIN cache
  THEN [git |-> (BranchRefOf(Sha1(create_at)) :> git[BranchRef]) @@ git,
        exc |-> "none", out |-> "",
        ret |-> [name |-> name, head |-> cache[BranchRefOf(name)]]]
  ELSE [git |-> (BranchRefOf(Sha1(create_at)) :> git[BranchRef]) @@ git,
        exc |-> "BranchException", out |-> name \o ": no such branch",
        ret |-> None]

\* Branch.create(repository, name, create_at)
BranchCreateCall ==
  /\ \E name \in BranchNames, create_at \in {None} \cup RefCommits,
        ok \in BOOLEAN :
       LET cache == CacheRefs(refsCache, gitRefs)
           r == BranchCreate(gitRefs, cache, name, create_at, ok)
       IN /\ refsCache' = cache
          /\ gitRefs' = r.git
          /\ last' = [op |-> "create", name |-> name, create_at |-> create_at,
                      exc |-> r.exc, out |-> r.out, ret |-> r.ret]
  /\ UNCHANGED <<patchRecs, patchorder, stackLog, iw, trans, pc, run, pre, ext,
                 nops>>
  /\ UNCHANGED unitVars

BranchNext ==
  \/ BranchCreateCall
  \/ RefsExternal

BranchSpec == Init /\ [][BranchNext]_vars

\* ------------------------------------------------------------ short commands
\* A command that stages at most MaxOps - 1 operations before it calls
\* run() or abort(): the actions of Next, reorder_patches left out.
ShortStaging == nops < MaxOps - 1

ShortNext ==
  \/ ExternalCommitOnBranch
  \/ New
  \/ (ShortStaging /\ PopPatches)
  \/ (ShortStaging /\ DeletePatches)
  \/ (ShortStaging /\ PushPatch)
  \/ (ShortStaging /\ SetHead)
  \/ Abort
  \/ Run
  \/ LogExternalMods
  \/ RunCheckout
  \/ RunSetHead
  \/ WritePatch
  \/ WriteOrder
  \/ LogEntry
  \/ Crash

ShortSpec == Init /\ [][ShortNext]_vars

\* ------------------------------------------------------------ direct staging
\* A command that stages through the transaction's attributes: it
\* assigns into trans.patches and appends to trans.applied, as the commands
\* that create a patch do, deletes patches, and runs the transaction.

\* a name no patch of the stack has
FreshName == "d"

\* An empty commit made on top of the commit `onto`, for a new patch.
NewPatchCommit(onto) == CommitData(onto.tree, <<onto>>, FreshName, 0)

\* "trans.patches[pn] = val" (dict.__setitem__ of _TransPatchMap), val a
\* commit or None, for a patch that is not staged as applied.
PatchesSet ==
  /\ Staging /\ ShortStaging
  /\ \E pn \in (PatchNames \cup {FreshName}) \ Range(trans.applied),
        val \in {None, NewPatchCommit(top(trans, patchRecs))} :
       /\ trans' = [trans EXCEPT !.patches = (pn :> val) @@ @]
       /\ last' = [op |-> "patches.__setitem__", pn |-> pn, exc |-> "none",
                   out |-> ""]
  /\ nops' = nops + 1
  /\ UNCHANGED <<gitRefs, refsCache, patchRecs, patchorder, stackLog, iw, pc,
                 run, pre, ext>>
  /\ UNCHANGED unitVars

\* "trans.applied.append(pn)" for the new patch whose commit is staged.
AppliedAppend ==
  /\ Staging
  /\ FreshName \in DOMAIN trans.patches
  /\ trans.patches[FreshName] # None
  /\ FreshName \notin Range(all_patches(trans))
  /\ trans' = [trans EXCEPT !.applied = Append(@, FreshName)]
  /\ last' = [op |-> "applied.append", pn |-> FreshName, exc |-> "none",
              out |-> ""]
  /\ nops' = nops + 1
  /\ UNCHANGED <<gitRefs, refsCache, patchRecs, patchorder, stackLog, iw, pc,
                 run, pre, ext>>
  /\ UNCHANGED unitVars

DirectNext ==
  \/ ExternalCommitOnBranch
  \/ New
  \/ PatchesSet
  \/ AppliedAppend
  \/ (ShortStaging /\ DeletePatches)
  \/ Run
  \/ LogExternalMods
  \/ RunCheckout
  \/ RunSetHead
  \/ WritePatch
  \/ WriteOrder
  \/ LogEntry

DirectSpec == Init /\ [][DirectNext]_vars

\* ------------------------------------------------------------ staged and run
\* A command that makes one reorder_patches call, or at most MaxOps - 1
\* other staging operations, and runs or aborts the transaction.
StagedNext ==
  \/ ShortNext
  \/ ReorderPatches

StagedSpec == Init /\ [][StagedNext]_vars

\* ------------------------------------------------------------ Refs, no other writer
\* The Refs accessor as the only writer of the repository's refs.

\* Refs.exists(ref): get(ref), with KeyError turned into False.
RefsExistsCall ==
  /\ \E ref \in RefNames :
       LET cache == CacheRefs(refsCache, gitRefs)
       IN /\ refsCache' = cache
          /\ last' = [op |-> "exists", ref |-> ref, exc |-> "none",
                      out |-> "", found |-> (ref \in DOMAIN cache)]
  /\ UNCHANGED <<gitRefs, patchRecs, patchorder, stackLog, iw, trans, pc, run,
                 pre, ext, nops>>
  /\ UNCHANGED unitVars

\* Refs.delete(ref)
RefsDeleteCall ==
  /\ \E ref \in RefNames, ok \in BOOLEAN :
       LET cache == CacheRefs(refsCache, gitRefs)
           r == RefsDelete(gitRefs, cache, ref, ok)
       IN /\ gitRefs' = r.git
          /\ refsCache' = r.cache
          /\ last' = [op |-> "delete", ref |-> ref, exc |-> r.exc, out |-> ""]
  /\ UNCHANGED <<patchRecs, patchorder, stackLog, iw, trans, pc, run, pre, ext,
                 nops>>
  /\ UNCHANGED unitVars

RefsOwnNext ==
  \/ RefsGetCall
  \/ RefsExistsCall
  \/ RefsSetCall
  \/ RefsDeleteCall

RefsOwnSpec == Init /\ [][RefsOwnNext]_vars

\* ------------------------------------------------------------ properties
\* A step of the staging phase: one of pop_patches, delete_patches,
\* push_patch, reorder_patches or "trans.head = ..." is called.
StagingStep == pc = "staging" /\ nops' > nops

\* C1: whenever run() raises, whatever step failed, the repository is as it
\* was when run() was called: the branch ref, every patch record, the three
\* order lists and the index+worktree.
C1_RunAllOrNothing ==
  (pc = "raised" /\ last.op = "run") => Disk = pre

\* C2: no staging operation changes the branch ref, a patch's recorded
\* commit or the stack's order lists, and an operation reads what the
\* earlier ones staged: a pushed patch's new commit has as its parent the
\* staged commit of the patch staged as the top (the override when there is
\* one, the live stack's commit otherwise), or the base under an empty
\* applied list.
C2_StagingLeavesStackAlone ==
  [][StagingStep =>
       /\ UNCHANGED <<gitRefs, patchRecs, patchorder>>
       /\ (last'.op = "push_patch" /\ last'.exc = "none") =>
            LET Staged(t, pn) == IF pn \in DOMAIN t.patches
                                 THEN t.patches[pn] ELSE patchRecs[pn]
            IN Parent(Staged(trans', last'.pn)) =
                 IF trans.applied = <<>> THEN trans.base
                 ELSE Staged(trans, Last(trans.applied))]_vars

\* A second push has landed on a patch whose commit only the override map
\* holds, and the live stack still has its old order.
C2_Witness ==
  /\ pc = "staging" /\ nops = 2
  /\ last.op = "push_patch" /\ last.exc = "none"
  /\ Len(trans.applied) >= 2
  /\ trans.applied[Len(trans.applied) - 1] \in DOMAIN trans.patches
  /\ trans.applied # patchorder.applied

\* C3: in a run() with a worktree and set_head the steps that succeeded so
\* far are, in order, the checkout, the branch ref update, the patch
\* records, the order lists and the log entry (then, after a conflicting
\* push, records, lists and log once more); no patch record or order list
\* differs from its value before run() until the ref update is done, and the
\* branch ref does not move until the checkout is done.
C3_RunStepOrder ==
  (run.useIw /\ run.set_head) =>
    LET s == run.steps
        running == pc \in RunSteps \cup {"raised", "crashed", "done"}
    IN /\ \A i \in 1..Len(s) : /\ ((i = 1) <=> (s[i] = "checkout"))
                                /\ ((i = 2) <=> (s[i] = "set_head"))
       /\ \A i \in 1..(Len(s) - 1) :
            /\ ((s[i] = "order") <=> (s[i + 1] = "log"))
            /\ ((s[i] = "patch") => (s[i + 1] \in {"patch", "order"}))
       /\ (running /\ "set_head" \notin Range(s)) =>
            (patchRecs = pre.recs /\ patchorder = pre.order)
       /\ (running /\ "checkout" \notin Range(s)) =>
            gitRefs[BranchRef] = pre.head
       /\ (pc = "done") => {"checkout", "set_head", "order", "log"} \subseteq Range(s)

\* run() with a worktree returned after it checked out, moved the branch,
\* wrote a patch record and the lists, and logged.
C3_Witness ==
  /\ pc = "done" /\ run.useIw /\ run.set_head
  /\ "patch" \in Range(run.steps)
  /\ iw # pre.iw /\ gitRefs[BranchRef] # pre.head /\ patchRecs # pre.recs

\* run() was killed before it updated the branch ref.
CrashedBeforeRefUpdate ==
  pc = "crashed" /\ run.set_head /\ "set_head" \notin Range(run.steps)

\* run() was killed after it updated the branch ref.
CrashedAfterRefUpdate ==
  pc = "crashed" /\ run.set_head /\ "set_head" \in Range(run.steps)

\* C4 as stated: a run() killed before the branch ref update leaves refs,
\* patch records, order lists, index and worktree as they were before
\* run(); killed after it, the branch ref names the new head.
C4_CrashLeavesDiskUnchanged ==
  /\ CrashedBeforeRefUpdate => Disk = pre
  /\ CrashedAfterRefUpdate => gitRefs[BranchRef] = run.new_head

\* C4 amended: a run() killed before the branch ref update leaves the
\* branch ref, the patch records and the order lists as they were before
\* run() (the index and worktree may already hold the new head's tree);
\* killed after it, the branch ref names the new head.
C4_CrashLeavesStackUnchanged ==
  /\ CrashedBeforeRefUpdate =>
       /\ gitRefs[BranchRef] = pre.head
       /\ patchRecs = pre.recs
       /\ patchorder = pre.order
  /\ CrashedAfterRefUpdate => gitRefs[BranchRef] = run.new_head

\* run() was killed between the checkout and the ref update: the worktree
\* has moved, the branch has not.
C4_Witness ==
  /\ CrashedBeforeRefUpdate
  /\ "checkout" \in Range(run.steps)
  /\ iw # pre.iw
  /\ gitRefs[BranchRef] = pre.head /\ run.new_head # pre.head

\* C5: when run() with set_head returns success and no head was named by
\* the command, the branch ref holds the commit recorded for the last applied
\* patch, or the transaction's base when no patch is applied.
C5_HeadIsTopAfterRun ==
  (/\ pc = "done" /\ last.ret = STGIT_SUCCESS
   /\ run.set_head /\ trans.bad_head = None) =>
    gitRefs[BranchRef] = IF patchorder.applied # <<>>
                         THEN patchRecs[Last(patchorder.applied)]
                         ELSE trans.base

\* run() succeeded and moved the branch to the rewritten commit of a pushed
\* patch.
C5_Witness ==
  /\ pc = "done" /\ last.ret = STGIT_SUCCESS
  /\ run.set_head /\ trans.bad_head = None
  /\ patchorder.applied # <<>>
  /\ gitRefs[BranchRef] # pre.head
  /\ gitRefs[BranchRef] \notin {pre.recs[pn] : pn \in DOMAIN pre.recs}

\* C6: after run() returns, every applied patch's recorded commit has as
\* its parent the recorded commit of the applied patch below it, and the
\* lowest one has the base.
C6_AppliedParentChain ==
  (pc = "done") =>
    \A i \in 1..Len(patchorder.applied) :
      Parent(patchRecs[patchorder.applied[i]]) =
        IF i = 1 THEN trans.base ELSE patchRecs[patchorder.applied[i - 1]]

\* run() returned on a stack of two or more applied patches in a new
\* order, with rewritten commits.
C6_Witness ==
  /\ pc = "done"
  /\ Len(patchorder.applied) >= 2
  /\ patchorder.applied # pre.order.applied
  /\ patchRecs # pre.recs

\* C7: while a command stages its operations the staged applied, unapplied
\* and hidden lists are pairwise disjoint; after run() the stack's lists
\* are pairwise disjoint and hold exactly the patches that exist.
C7_ListsDisjoint ==
  LET Disjoint(o) ==
        /\ Range(o.applied) \cap Range(o.unapplied) = {}
        /\ Range(o.applied) \cap Range(o.hidden) = {}
        /\ Range(o.unapplied) \cap Range(o.hidden) = {}
  IN /\ (pc \in {"staging", "halted"}) => Disjoint(trans)
     /\ (pc = "done") =>
          /\ Disjoint(patchorder)
          /\ Range(patchorder.applied) \cup Range(patchorder.unapplied)
               \cup Range(patchorder.hidden) = DOMAIN patchRecs

\* C8: __init__ leaves the stack as it is; on a stack whose branch head is
\* not the commit of the top applied patch it raises TransactionException
\* with the HEAD/top message unless allow_bad_head is given, and with
\* allow_bad_head it succeeds.
C8_BadHeadRejected ==
  [][(pc = "none" /\ pc' # "none") =>
       LET diverged == /\ patchorder.applied # <<>>
                       /\ gitRefs[BranchRef] #
                            patchRecs[Last(patchorder.applied)]
       IN /\ UNCHANGED <<gitRefs, patchRecs, patchorder, stackLog>>
          /\ (diverged /\ ~last'.allow_bad_head) =>
               /\ pc' = "raised"
               /\ last'.exc = "TransactionException"
               /\ last'.out = "HEAD and top are not the same."
          /\ last'.allow_bad_head =>
               (pc' = "staging" /\ last'.exc = "none")]_vars

\* __init__ has raised on a branch that was committed to behind the
\* stack's back.
C8_Witness ==
  /\ pc = "raised" /\ last.op = "__init__" /\ ext
  /\ gitRefs[BranchRef] # patchRecs[Last(patchorder.applied)]

\* C9: pop_patches(p) never raises and leaves hidden and the override map
\* alone; with i the lowest applied index whose patch satisfies p, applied
\* becomes applied[:i], unapplied becomes the members of applied[i:] outside
\* p, then those inside p, then the old unapplied, and the members outside p
\* are returned; when no applied patch satisfies p the transaction is
\* unchanged and the empty list is returned.
C9_PopPatches ==
  [][(StagingStep /\ last'.op = "pop_patches") =>
       LET A == trans.applied
           p == last'.p
           hits == {i \in 1..Len(A) : A[i] \in p}
           Inside(x) == x \in p
           Outside(x) == x \notin p
       IN /\ last'.exc = "none" /\ pc' = "staging"
          /\ trans'.hidden = trans.hidden
          /\ trans'.patches = trans.patches
          /\ IF hits = {}
             THEN trans' = trans /\ last'.ret = <<>>
             ELSE LET i == CHOOSE k \in hits : \A j \in hits : k <= j
                      tail == SubSeq(A, i, Len(A))
                  IN /\ trans'.applied = SubSeq(A, 1, i - 1)
                     /\ trans'.unapplied = SelectSeq(tail, Outside)
                          \o SelectSeq(tail, Inside) \o trans.unapplied
                     /\ last'.ret = SelectSeq(tail, Outside)]_vars

\* pop_patches has popped a patch it was not asked to pop together with
\* one it was asked to pop.
C9_Witness ==
  /\ pc = "staging" /\ last.op = "pop_patches"
  /\ last.ret # <<>>
  /\ Len(trans.unapplied) >= 2
  /\ trans.unapplied[1] \notin last.p /\ trans.unapplied[2] \in last.p

\* C10: delete_patches(p) tombstones in the override map every patch of the
\* three lists that satisfies p and removes it from its list; applied is cut
\* at the lowest applied index satisfying p, the patches above it outside p
\* go in order to the front of unapplied and are returned; a patch outside p
\* keeps its place in the lists and its override entry.
C10_DeletePatches ==
  [][(StagingStep /\ last'.op = "delete_patches") =>
       LET A == trans.applied
           p == last'.p
           Names(t) == Range(t.applied) \cup Range(t.unapplied)
                         \cup Range(t.hidden)
           hits == {i \in 1..Len(A) : A[i] \in p}
           i == IF hits = {} THEN Len(A) + 1
                ELSE CHOOSE k \in hits : \A j \in hits : k <= j
           tail == SubSeq(A, i, Len(A))
           Outside(x) == x \notin p
       IN /\ \A pn \in Names(trans) \cap p :
               /\ pn \in DOMAIN trans'.patches
               /\ trans'.patches[pn] = None
               /\ pn \notin Names(trans')
          /\ trans'.applied = SubSeq(A, 1, i - 1)
          /\ trans'.unapplied = SelectSeq(tail, Outside)
               \o SelectSeq(trans.unapplied, Outside)
          /\ trans'.hidden = SelectSeq(trans.hidden, Outside)
          /\ last'.ret = SelectSeq(tail, Outside)
          /\ DOMAIN trans'.patches =
               DOMAIN trans.patches \cup (Names(trans) \cap p)
          /\ \A pn \in DOMAIN trans.patches \ p :
               trans'.patches[pn] = trans.patches[pn]]_vars

\* delete_patches has deleted an applied and a hidden patch and popped a
\* patch that stood above the deleted one.
C10_Witness ==
  /\ pc = "staging" /\ last.op = "delete_patches"
  /\ last.ret # <<>>
  /\ \E pn \in last.p \cap Range(patchorder.applied) :
       pn \in DOMAIN trans.patches /\ trans.patches[pn] = None
  /\ \E pn \in last.p \cap Range(patchorder.hidden) :
       pn \in DOMAIN trans.patches /\ trans.patches[pn] = None

\* The commit the transaction t holds for pn: its override, else the
\* stack's record.
StagedCommit(t, pn) ==
  IF pn \in DOMAIN t.patches THEN t.patches[pn] ELSE patchRecs[pn]

\* The three-way merge of trees, file by file: the side that changed the
\* file wins.
ThreeWay(base, ours, theirs) ==
  [p \in Paths |-> IF theirs[p] = base[p] THEN ours[p] ELSE theirs[p]]

\* base, ours and theirs differ pairwise and both sides changed one file:
\* the merge in the temporary index fails.
IndexMergeFails(base, ours, theirs) ==
  /\ base # ours /\ base # theirs /\ ours # theirs
  /\ \E p \in Paths : ours[p] # base[p] /\ theirs[p] # base[p]

\* The top of the staged stack before the step.
PrevTop == IF trans.applied = <<>> THEN trans.base
           ELSE StagedCommit(trans, Last(trans.applied))

\* C11: a push_patch(pn) that returns has moved pn from hidden, or else
\* from unapplied, to the end of applied; pn's staged commit has the
\* previous top as its only parent and as its tree the three-way merge of
\* its old parent's tree, the previous top's tree and its own tree; every
\* other patch keeps its place and its commit.
C11_CleanPush ==
  [][(StagingStep /\ last'.op = "push_patch" /\ last'.exc = "none") =>
       LET pn == last'.pn
           old == StagedCommit(trans, pn)
           Other(x) == x # pn
       IN /\ trans'.applied = Append(trans.applied, pn)
          /\ trans'.hidden = SelectSeq(trans.hidden, Other)
          /\ trans'.unapplied = IF pn \in Range(trans.hidden)
                                THEN trans.unapplied
                                ELSE SelectSeq(trans.unapplied, Other)
          /\ StagedCommit(trans', pn).parents = <<PrevTop>>
          /\ StagedCommit(trans', pn).tree =
               ThreeWay(Parent(old).tree, PrevTop.tree, old.tree)
          /\ DOMAIN trans'.patches \ {pn} = DOMAIN trans.patches \ {pn}
          /\ \A q \in DOMAIN trans.patches \ {pn} :
               trans'.patches[q] = trans.patches[q]]_vars

\* A patch was pushed onto a new parent and its tree is a merge that is
\* neither its old tree nor the parent's.
C11_Witness ==
  /\ pc = "staging" /\ last.op = "push_patch" /\ last.exc = "none"
  /\ last.pn \in DOMAIN trans.patches
  /\ trans.patches[last.pn].tree # patchRecs[last.pn].tree
  /\ trans.patches[last.pn].tree # Parent(trans.patches[last.pn]).tree
  /\ Last(trans.applied) = last.pn

\* C12: push_patch(pn) without a worktree, when the merge in the temporary
\* index fails, raises TransactionHalted with the error set to
\* "<pn> does not apply cleanly" and leaves the staged lists and the
\* override map as they were.
C12_PushHaltsWithoutWorktree ==
  [][(/\ StagingStep /\ last'.op = "push_patch" /\ ~last'.useIw
      /\ IndexMergeFails(Parent(StagedCommit(trans, last'.pn)).tree,
                         PrevTop.tree, StagedCommit(trans, last'.pn).tree)) =>
       /\ pc' = "halted"
       /\ last'.exc = "TransactionHalted"
       /\ trans'.error = last'.pn \o " does not apply cleanly"
       /\ trans'.applied = trans.applied
       /\ trans'.unapplied = trans.unapplied
       /\ trans'.hidden = trans.hidden
       /\ trans'.patches = trans.patches]_vars

\* A push without a worktree has halted on a patch that does not apply.
C12_Witness ==
  /\ pc = "halted" /\ last.op = "push_patch" /\ ~last.useIw
  /\ trans.error = last.pn \o " does not apply cleanly"
  /\ last.pn \notin Range(trans.applied)

\* run() with a worktree and set_head has returned after writing a
\* conflicting push in its second pass, and the command named no head.
ConflictRunDone ==
  /\ pc = "done" /\ run.pass = 2
  /\ run.useIw /\ run.set_head /\ trans.bad_head = None

\* C13: after a push_patch(b, iw) that ended in a merge conflict and the
\* run(iw) that followed, the stack's applied list ends with b, b's
\* recorded commit has the patch below it (or the base) as parent and that
\* commit's tree as tree, the branch ref holds b's commit, the last log
\* entry carries the message with " (CONFLICT)", and run() returned
\* STGIT_CONFLICT.
C13_ConflictRecorded ==
  ConflictRunDone =>
    LET ap == patchorder.applied
        b == patchRecs[Last(ap)]
        below == IF Len(ap) = 1 THEN trans.base ELSE patchRecs[ap[Len(ap) - 1]]
    IN /\ ap # <<>>
       /\ Parent(b) = below
       /\ b.tree = below.tree
       /\ gitRefs[BranchRef] = b
       /\ Last(stackLog).msg = Msg \o " (CONFLICT)"
       /\ last.ret = STGIT_CONFLICT


\* C14: reorder_patches(applied', ...) on applied, with k the length of
\* their longest common prefix, leaves the first k patches applied and
\* without an override, pops the rest of applied to the front of unapplied
\* and pushes applied'[k:] in order: the staged applied list is a prefix of
\* applied' at least k long (all of it when the call returns), every pushed
\* commit has the one before it in applied' as parent, only pushed patches
\* have overrides, and when the call raises the unapplied and hidden lists
\* are the popped and old ones less the pushed patches.
C14_ReorderPopsAndPushes ==
  [][(StagingStep /\ last'.op = "reorder_patches") =>
       LET A == trans.applied
           B == last'.applied
           m == IF Len(A) < Len(B) THEN Len(A) ELSE Len(B)
           k == CHOOSE i \in 0..m :
                  /\ \A j \in 1..i : A[j] = B[j]
                  /\ (i = m \/ A[i + 1] # B[i + 1])
           n == Len(trans'.applied)
           pushed == IF n > k THEN Range(SubSeq(B, k + 1, n)) ELSE {}
           NotPushed(x) == x \notin pushed
       IN /\ k <= n /\ n <= Len(B)
          /\ trans'.applied = SubSeq(B, 1, n)
          /\ (last'.exc = "none") => (n = Len(B))
          /\ \A i \in 1..k : A[i] \notin DOMAIN trans'.patches
          /\ DOMAIN trans'.patches \subseteq pushed
          /\ \A j \in (k + 1)..n :
               Parent(StagedCommit(trans', B[j])) =
                 IF j = 1 THEN trans.base ELSE StagedCommit(trans', B[j - 1])
          /\ (last'.exc # "none") =>
               /\ trans'.unapplied =
                    SelectSeq(SubSeq(A, k + 1, Len(A)) \o trans.unapplied,
                              NotPushed)
               /\ trans'.hidden = SelectSeq(trans.hidden, NotPushed)]_vars

\* reorder_patches kept a common prefix, popped a patch and pushed another
\* one, which got a new commit.
C14_Witness ==
  /\ pc = "staging" /\ last.op = "reorder_patches" /\ last.exc = "none"
  /\ Len(trans.applied) >= 2 /\ patchorder.applied # <<>>
  /\ trans.applied[1] = patchorder.applied[1]
  /\ trans.applied # patchorder.applied
  /\ Last(trans.applied) \in DOMAIN trans.patches
  /\ Range(patchorder.applied) \ Range(trans.applied) # {}

\* C15: abort(iw) leaves the staged lists, the override map, the refs and
\* the patch records as they are and never objects to a divergent head;
\* when it returns, the index holds the tree of the live stack's head and
\* none of the unmerged entries a conflicting push of this transaction
\* left; abort() without a worktree changes nothing at all.
C15_AbortRestoresWorktree ==
  [][(pc # "aborted" /\ pc' = "aborted") =>
       /\ UNCHANGED <<gitRefs, refsCache, patchRecs, patchorder, stackLog>>
       /\ trans'.applied = trans.applied
       /\ trans'.unapplied = trans.unapplied
       /\ trans'.hidden = trans.hidden
       /\ trans'.patches = trans.patches
       /\ last'.out # "HEAD and top are not the same."
       /\ IF last'.useIw
          THEN (last'.exc = "none") =>
                 /\ iw'.tree = StackHead(refsCache).tree
                 /\ (trans.conflicting_push # None) => ~iw'.conflicts
          ELSE trans' = trans /\ iw' = iw /\ last'.exc = "none"]_vars

\* The checkout of run() failed with CheckoutException and run() called
\* abort(iw).
RunAborted ==
  /\ pc = "raised" /\ last.op = "run"
  /\ "at" \in DOMAIN last /\ last.at = "abort"

\* C16: when the checkout of run() fails on a dirty index or worktree,
\* run() has abort(iw) put the head's tree back and raises
\* TransactionException; the branch ref, the patch records and the order
\* lists are as before run() and the log has no entry of the transaction
\* (the marker that the audit step appends for a branch moved outside the
\* stack is not counted).
C16_DirtyCheckoutAborts ==
  RunAborted =>
    /\ last.exc = "TransactionException"
    /\ iw.tree = gitRefs[BranchRef].tree
    /\ gitRefs[BranchRef] = pre.head
    /\ patchRecs = pre.recs
    /\ patchorder = pre.order
    /\ \/ stackLog = run.log
       \/ /\ Len(stackLog) = Len(run.log) + 1
          /\ SubSeq(stackLog, 1, Len(run.log)) = run.log
          /\ Last(stackLog).msg = "external modifications"

\* What C17 says of one transaction checkout to the tree tgt of a
\* transaction t that passed the head check, given the index and worktree
\* before (w) and after (w2), whether the call raised, and the exception
\* and message it ended with.
CheckoutAsStated(t, tgt, w, w2, raised, exc, out) ==
  /\ (t.current_tree = tgt /\ ~t.discard_changes) =>
       /\ w2 = w
       /\ IF w.conflicts /\ ~t.allow_conflicts
          THEN /\ raised
               /\ exc = "TransactionException"
               /\ out = "Need to resolve conflicts first"
               /\ UNCHANGED <<gitRefs, refsCache, patchRecs, patchorder>>
          ELSE ~raised
  /\ t.discard_changes =>
       /\ ~raised
       /\ w2 = [tree |-> tgt, dirty |-> {}, conflicts |-> FALSE]

C17_HardReset ==
  /\ pc = "set_head" /\ trans.discard_changes
  /\ pre.iw.dirty # {}
  /\ iw = [tree |-> run.new_head.tree, dirty |-> {}, conflicts |-> FALSE]

\* The stack holds what the transaction t staged: its three lists and
\* every entry of its override map.
StagedStateWritten(t) ==
  /\ patchorder = [applied |-> t.applied, unapplied |-> t.unapplied,
                   hidden |-> t.hidden]
  /\ \A pn \in DOMAIN t.patches :
       IF t.patches[pn] = None THEN pn \notin DOMAIN patchRecs
       ELSE pn \in DOMAIN patchRecs /\ patchRecs[pn] = t.patches[pn]

\* C18: when run() returns, its code is STGIT_CONFLICT (3) if the staging
\* ended with a halt (which set the transaction's error) and STGIT_SUCCESS
\* (0) if it did not; either way the stack holds the staged lists and the
\* staged commits.
C18_ReturnCode ==
  pc = "done" =>
    /\ last.ret = (IF run.halted THEN STGIT_CONFLICT ELSE STGIT_SUCCESS)
    /\ run.halted <=> (trans.error # NoError)
    /\ STGIT_CONFLICT = 3 /\ STGIT_SUCCESS = 0
    /\ StagedStateWritten(trans)

\* run() returned 3 after a push that halted without a conflict to record,
\* having written what was staged before the halt.
C18_Witness ==
  /\ pc = "done" /\ run.halted
  /\ last.ret = STGIT_CONFLICT
  /\ trans.conflicting_push = None
  /\ patchorder # pre.order

\* A step that is a call of Refs.set.
RefsSetStep == last'.op = "set" /\ last' # last

\* C19: Refs.set(ref, commit, msg) with a new value other than the cached
\* one changes the ref in git only if git holds the cached value of ref
\* (the forty zeros, "no such ref", when ref is not in the cache) and
\* raises otherwise; the cache entry becomes the new value exactly when
\* git took the update, and cache and git are as before when it failed.
\* With the cached value as new value nothing needs updating.
C19_SetIsCompareAndSwap ==
  [][RefsSetStep =>
       LET cache == CacheRefs(refsCache, gitRefs)
           ref == last'.ref
           new == last'.commit
           old == OldSha1(cache, ref)
       IN IF new = old
          THEN /\ last'.exc = "none"
               /\ gitRefs' = gitRefs /\ refsCache' = cache
          ELSE \/ /\ last'.exc = "none"
                  /\ GitValue(gitRefs, ref) = old
                  /\ gitRefs' = (ref :> new) @@ gitRefs
                  /\ refsCache' = (ref :> new) @@ cache
               \/ /\ last'.exc = "RunException"
                  /\ gitRefs' = gitRefs /\ refsCache' = cache]_vars

\* Refs.set created a ref that was not in the cache, with the forty zeros
\* as expected old value.
C19_Witness ==
  /\ last.op = "set" /\ last.exc = "none"
  /\ last.old = Zero
  /\ gitRefs[last.ref] = last.commit
  /\ refsCache[last.ref] = last.commit

\* The cache is loaded and git holds for ref another value than the cache.
Stale(ref) ==
  /\ refsCache # None
  /\ GitValue(gitRefs, ref) # OldSha1(refsCache, ref)

\* C20 as stated: when a ref was changed in git after the cache was
\* loaded, every later Refs.set on that ref raises RunException and leaves
\* git's value and the cache as they are.
C20_StaleSetRejected ==
  [][(RefsSetStep /\ Stale(last'.ref)) =>
       /\ last'.exc = "RunException"
       /\ gitRefs' = gitRefs
       /\ refsCache' = refsCache]_vars

\* C20 amended: such a Refs.set raises RunException when its new value is
\* not the cached one, and runs no update and returns normally when it
\* is; in both cases git keeps the external value and the cache its own.
C20_StaleSetNeverOverwrites ==
  [][(RefsSetStep /\ Stale(last'.ref)) =>
       /\ last'.exc = (IF last'.commit = OldSha1(refsCache, last'.ref)
                        THEN "none" ELSE "RunException")
       /\ gitRefs' = gitRefs
       /\ refsCache' = refsCache]_vars

\* A Refs.set was rejected on a ref that another process had moved away
\* from the cached value; git still holds the external value.
C20_Witness ==
  /\ last.op = "set" /\ last.exc = "RunException"
  /\ refsCache # None
  /\ OldSha1(refsCache, last.ref) = last.old
  /\ GitValue(gitRefs, last.ref) \notin {last.old, last.commit}

\* C21: every lookup of an object of one repository (get_blob, get_tree,
\* get_commit, get_object, or committing object data) returns the handle
\* that the first lookup of that type and sha1 made; no entry of the
\* caches is ever replaced or dropped, and no two objects share a handle.
C21_OneHandlePerObject ==
  [][LET t == last'.type
         k == last'.sha1
     IN /\ k \in DOMAIN objects[t] => last'.ret = objects[t][k]
        /\ last'.ret = objects'[t][k]
        /\ \A t2 \in ObjTypes : \A k2 \in DOMAIN objects[t2] :
             k2 \in DOMAIN objects'[t2] /\ objects'[t2][k2] = objects[t2][k2]
        /\ \A t1, t2 \in ObjTypes :
             \A k1 \in DOMAIN objects'[t1], k2 \in DOMAIN objects'[t2] :
               (objects'[t1][k1].id = objects'[t2][k2].id) =>
                 (t1 = t2 /\ k1 = k2)]_vars

\* get_object returned a handle that an earlier lookup had made, after
\* other handles were made in between.
C21_Witness ==
  /\ last.op = "get_object"
  /\ last.ret.id < objects.made
  /\ last.ret = objects[last.type][last.sha1]

\* C22: Index.merge(base, ours, theirs, current) returns (theirs, current)
\* when base == ours, else (ours, current) when base == theirs, else
\* (ours, current) when ours == theirs; in these three cases it runs no
\* read-tree, apply or write-tree, so the index is left as it was.
C22_TrivialMerges ==
  [][last'.op = "merge" =>
       LET trivial == \/ last'.base = last'.ours
                      \/ last'.base = last'.theirs
                      \/ last'.ours = last'.theirs
           result == IF last'.base = last'.ours THEN last'.theirs
                     ELSE last'.ours
       IN trivial => /\ last'.tree = result
                     /\ last'.now = last'.current
                     /\ last'.cmds = << >>
                     /\ index'.idx = index.idx]_vars

\* A merge with ours == theirs and another base, on an index that an
\* earlier merge left holding a different tree.
C22_Witness ==
  /\ last.op = "merge"
  /\ last.ours = last.theirs
  /\ last.base # last.ours
  /\ last.current # None
  /\ last.current # last.ours
  /\ last.tree = last.ours
  /\ index.idx = last.current

\* C23: a push_patch(pn) that gets to rebuild pn's commit data creates a
\* commit object if and only if the parent, the tree, the author or the
\* message of the rebuilt data differs from pn's current commit; the
\* commit carries the rebuilt data and becomes pn's override (at once, or
\* held by the deferred update after a merge conflict); when nothing
\* differs no commit is created and the override map is left as it was.
C23_CommitIffChanged ==
  [][(StagingStep /\ last'.op = "push_patch" /\ last'.cd # None) =>
       LET pn == last'.pn
           old == StagedCommit(trans, pn)
           cd == last'.cd
           comm == last'.comm
           differs == \/ Parent(cd) # Parent(old)
                      \/ cd.tree # old.tree
                      \/ cd.author # old.author
                      \/ cd.message # old.message
       IN /\ cd.parents = <<PrevTop>>
          /\ cd.author = old.author
          /\ cd.message = old.message
          /\ (comm # None) <=> differs
          /\ (comm # None) =>
               /\ comm.parents = cd.parents /\ comm.tree = cd.tree
               /\ comm.author = cd.author /\ comm.message = cd.message
          /\ (last'.exc = "none") =>
               (trans'.patches = IF differs THEN (pn :> comm) @@ trans.patches
                                 ELSE trans.patches)
          /\ (last'.exc # "none") =>
               /\ trans'.patches = trans.patches
               /\ trans'.conflicting_push = [pn |-> pn, comm |-> comm]]_vars

\* A patch that an earlier push had rewritten was popped and pushed back
\* onto the same parent: no commit was created and the override stands.
C23_Witness ==
  /\ pc = "staging" /\ last.op = "push_patch" /\ last.exc = "none"
  /\ last.cd # None /\ last.comm = None
  /\ last.pn \in DOMAIN trans.patches
  /\ trans.patches[last.pn] # patchRecs[last.pn]
  /\ Last(trans.applied) = last.pn

\* The push about to be made is of a patch whose tree (theirs) is the tree
\* of the top it is pushed onto (ours).
PushesEmpty ==
  /\ StagingStep /\ last'.op = "push_patch"
  /\ StagedCommit(trans, last'.pn).tree = PrevTop.tree

\* C24 as stated: a push_patch whose theirs tree equals the ours tree
\* reports the patch as '(empty)' and creates no commit object.
C24_EmptyPushMakesNoCommit ==
  [][PushesEmpty => (last'.out = " (empty)" /\ last'.comm = None)]_vars

\* C24, amended: a push_patch whose theirs tree equals the ours tree
\* returns, reports the patch as '(empty)' and leaves the patch with the
\* new parent as its parent and the new parent's tree as its tree; it
\* creates no commit object exactly when the new parent already is the
\* patch's parent.
C24_EmptyPush ==
  [][PushesEmpty =>
       LET pn == last'.pn
           old == StagedCommit(trans, pn)
       IN /\ last'.exc = "none"
          /\ last'.out = " (empty)"
          /\ (last'.comm = None) <=> (Parent(old) = PrevTop)
          /\ StagedCommit(trans', pn).parents = <<PrevTop>>
          /\ StagedCommit(trans', pn).tree = PrevTop.tree
          /\ Last(trans'.applied) = pn]_vars

\* A patch was pushed onto a new parent that has the patch's tree: the
\* push said '(empty)' and made the commit that is now the patch's.
C24_Witness ==
  /\ pc = "staging" /\ last.op = "push_patch" /\ last.exc = "none"
  /\ last.out = " (empty)"
  /\ last.comm # None
  /\ trans.patches[last.pn] = last.comm
  /\ Parent(last.comm) # Parent(patchRecs[last.pn])
  /\ last.comm.tree = Parent(last.comm).tree

\* The first operation of the transaction popped exactly the applied patch
\* pn, and the step pushes pn back without a conflict.  The state before
\* the pop is the fresh transaction's: the stack's lists and commits.
PopThenPush(pn) ==
  /\ StagingStep /\ nops = 1
  /\ last.op = "pop_patches" /\ last.p = {pn}
  /\ pn \in Range(patchorder.applied)
  /\ last'.op = "push_patch" /\ last'.pn = pn /\ last'.exc = "none"

\* The staged stack after the step is the stack the transaction started
\* from.
StackAsBefore ==
  /\ trans'.applied = patchorder.applied
  /\ trans'.unapplied = patchorder.unapplied
  /\ trans'.hidden = patchorder.hidden
  /\ \A q \in DOMAIN patchRecs : StagedCommit(trans', q) = patchRecs[q]

\* C25 as stated: for any applied patch pn, pop_patches of pn followed by
\* a push_patch(pn) without conflict returns the staged stack (the three
\* lists and every patch's staged commit) to what it was before the pop.
C25_PopPushIdentity ==
  [][\A pn \in PatchNames : PopThenPush(pn) => StackAsBefore]_vars

\* C25, amended: for the topmost applied patch pn, pop_patches of pn
\* followed by a push_patch(pn) returns the staged stack to what it was
\* before the pop and creates no commit.
C25_PopPushTopIdentity ==
  [][\A pn \in PatchNames :
       (PopThenPush(pn) /\ pn = Last(patchorder.applied)) =>
         (StackAsBefore /\ last'.comm = None)]_vars

\* The top patch of a stack of three was popped and pushed back.
C25_Witness ==
  /\ pc = "staging" /\ nops = 2
  /\ last.op = "push_patch" /\ last.exc = "none"
  /\ Len(patchorder.applied) = 3
  /\ last.pn = Last(patchorder.applied)
  /\ trans.applied = patchorder.applied
  /\ trans.unapplied = patchorder.unapplied
  /\ last.comm = None

\* C26: pop_patches selecting one applied patch x takes x and the patches
\* above it off applied and returns the patches above as incidental pops;
\* pushing x and then the incidental pops in their original stack order
\* lands every patch on its former parent, creates no commit, and ends
\* with the original applied list and every patch's commit as it was.
C26_PopPushBackRestores ==
  [][/\ (StagingStep /\ last'.op = "pop_patches") =>
          LET x == CHOOSE x \in last'.p : TRUE
              i == IndexOf(patchorder.applied, x)
              n == Len(patchorder.applied)
          IN /\ trans'.applied = SubSeq(patchorder.applied, 1, i - 1)
             /\ last'.ret = SubSeq(patchorder.applied, i + 1, n)
             /\ Range(SubSeq(patchorder.applied, i, n))
                  \subseteq Range(trans'.unapplied)
     /\ (StagingStep /\ last'.op = "push_patch") =>
          LET pn == last'.pn
          IN /\ PrevTop = Parent(patchRecs[pn])
             /\ last'.exc = "none"
             /\ last'.comm = None
             /\ trans'.patches = trans.patches
             /\ trans'.applied =
                  SubSeq(patchorder.applied, 1, Len(trans.applied) + 1)
             /\ (Len(trans'.applied) = Len(patchorder.applied)) =>
                  /\ trans'.applied = patchorder.applied
                  /\ \A q \in DOMAIN patchRecs :
                       StagedCommit(trans', q) = patchRecs[q]]_vars

\* The middle patch of three was popped, which popped the top one too,
\* and both were pushed back: the applied list is the original one.
C26_Witness ==
  /\ pc = "staging" /\ nops = 3
  /\ last.op = "push_patch" /\ last.exc = "none"
  /\ patchorder.applied = <<"a", "b", "c">>
  /\ trans.applied = patchorder.applied
  /\ last.pn = "c"
  /\ trans.patches = << >>

\* The step is the second reorder_patches of the transaction.
SecondReorder == pc = "staging" /\ nops = 1 /\ nops' = 2

\* What the second reorder_patches alone makes of the transaction as it
\* was constructed, with the index+worktree as it was.
ReorderAlone ==
  reorder_patches(NewTransaction(patchRecs, patchorder, refsCache,
                                 trans.discard_changes, trans.allow_conflicts),
                  patchRecs, iw, last'.applied, last'.unapplied, last'.hidden,
                  last'.useIw, last'.now, HeadTopEqual)

RECURSIVE Unstamped(_)
\* A commit without its committer stamps, its ancestors' included.
Unstamped(c) ==
  [tree |-> c.tree, author |-> c.author, message |-> c.message,
   parents |-> [i \in 1..Len(c.parents) |-> Unstamped(c.parents[i])]]

NoneAbsorbed(t) ==
  \A q \in Range(all_patches(t)) :
    is_nochange(StagedCommit(t, q)) => is_nochange(patchRecs[q])

C28_DeleteAllEmptiesStack ==
  (pc = "done" /\ run.set_head) =>
    /\ patchorder.applied = << >>
    /\ patchorder.unapplied = << >>
    /\ patchorder.hidden = << >>
    /\ DOMAIN patchRecs = {}
    /\ gitRefs[BranchRef] = trans.base

\* Every patch of a stack with applied patches was deleted and run() has
\* returned: the branch was moved from the top to the base.
C28_Witness ==
  /\ pc = "done" /\ run.set_head
  /\ pre.order.applied # << >>
  /\ pre.head # trans.base
  /\ gitRefs[BranchRef] = trans.base
  /\ DOMAIN patchRecs = {}

\* The step is a staging operation that raises.
StagingRaises == StagingStep /\ last'.exc # "none"

\* C29 as stated: a staging operation (pop_patches, delete_patches,
\* push_patch with or without a worktree, reorder_patches) that raises
\* before run() is called leaves no ref, no patch record and no index
\* file changed.
C29_RaiseLeavesAllUntouched ==
  [][StagingRaises =>
       /\ gitRefs' = gitRefs
       /\ patchRecs' = patchRecs
       /\ patchorder' = patchorder
       /\ iw' = iw]_vars

\* C29, amended: a staging operation that raises before run() is called
\* leaves every ref, every patch record, the stack's order lists and the
\* stack log as they were; the repository's index and worktree are left
\* as they were too, unless the operation is a push_patch or a
\* reorder_patches that was given the index+worktree.
C29_RaiseLeavesStackUntouched ==
  [][StagingRaises =>
       /\ gitRefs' = gitRefs
       /\ patchRecs' = patchRecs
       /\ patchorder' = patchorder
       /\ stackLog' = stackLog
       /\ (iw' # iw) =>
            /\ last'.op \in {"push_patch", "reorder_patches"}
            /\ last'.useIw]_vars

\* A push_patch given the index+worktree has halted on a merge conflict
\* that it wrote into the repository's index.
C29_Witness ==
  /\ pc = "halted" /\ last.op = "push_patch" /\ last.useIw
  /\ last.exc = "TransactionHalted"
  /\ trans.error = "Merge conflict"
  /\ iw.conflicts
  /\ gitRefs[BranchRef] = TopOf([recs |-> patchRecs, order |-> patchorder])

\* C30: Branch.create(repository, name, create_at) raises BranchException
\* when a branch called name already exists; otherwise it returns, the
\* repository has a branch called name, at create_at when that is given,
\* and the Branch object returned is for name with that commit as head.
C30_CreateMakesBranch ==
  [][last'.op = "create" =>
       LET ref == BranchRefOf(last'.name)
       IN IF ref \in DOMAIN gitRefs
          THEN last'.exc = "BranchException"
          ELSE /\ last'.exc = "none"
               /\ ref \in DOMAIN gitRefs'
               /\ (last'.create_at # None) =>
                    (gitRefs'[ref] = last'.create_at)
               /\ last'.ret = [name |-> last'.name, head |-> gitRefs'[ref]]]_vars

\* The log entry that ends the first pass of write() is made.
FirstPassEnds ==
  pc = "log_entry" /\ run.pass = 1 /\ pc' \notin {"raised", "crashed"}

\* The log entry that ends the second pass of write() is made.
SecondPassEnds ==
  pc = "log_entry" /\ run.pass = 2 /\ pc' \notin {"raised", "crashed"}

\* The override entries of t and its three lists are what the stack holds.
Written(t) ==
  /\ patchorder = [applied |-> t.applied, unapplied |-> t.unapplied,
                   hidden |-> t.hidden]
  /\ \A pn \in DOMAIN t.patches :
       IF t.patches[pn] = None THEN pn \notin DOMAIN patchRecs
       ELSE pn \in DOMAIN patchRecs /\ patchRecs[pn] = t.patches[pn]

\* C31: run() on a transaction with a conflicting push makes two passes of
\* writing and logging: the first, logged under the plain message, writes
\* the staged state in which the conflicting patch is not applied; then the
\* override map is reset and the deferred update applied; the second,
\* logged under the message with " (CONFLICT)", records the patch as
\* applied.  The deferred update does not run before the first pass has
\* ended, and without a conflicting push there is one pass.
C31_ConflictTwoPasses ==
  [][/\ FirstPassEnds =>
          /\ Written(trans)
          /\ Last(stackLog').msg = Msg
          /\ IF trans.conflicting_push = None
             THEN pc' = "done" /\ trans' = trans
             ELSE LET cp == trans.conflicting_push
                  IN /\ cp.pn \notin Range(trans.applied)
                     /\ cp.pn \notin Range(patchorder.applied)
                     /\ trans'.patches = IF cp.comm = None THEN << >>
                                         ELSE (cp.pn :> cp.comm)
                     /\ trans'.applied = Append(trans.applied, cp.pn)
                     /\ cp.pn \notin Range(trans'.unapplied \o trans'.hidden)
                     /\ run'.pass = 2
                     /\ pc' \in {"write_patches", "write_order"}
     /\ SecondPassEnds =>
          /\ trans.conflicting_push # None
          /\ Written(trans)
          /\ Last(patchorder.applied) = trans.conflicting_push.pn
          /\ Last(stackLog').msg = Msg \o " (CONFLICT)"
          /\ pc' = "done" /\ trans' = trans
     /\ (run'.pass # run.pass /\ run'.pass = 2) => FirstPassEnds
     /\ (trans' # trans /\ pc \in RunSteps /\ pc' \in RunSteps /\ run.pass = 1
         /\ trans.conflicting_push # None) =>
          (FirstPassEnds \/ trans'.applied = trans.applied)
     /\ (pc' = "done") =>
          Cardinality({i \in 1..Len(run'.steps) : run'.steps[i] = "log"}) =
            IF trans.conflicting_push = None THEN 1 ELSE 2]_vars

\* run() has returned after two passes: the first wrote the commit of a
\* patch pushed before the conflicting one, the second the conflicting
\* patch, now the last applied one.
C31_Witness ==
  /\ pc = "done" /\ run.pass = 2
  /\ trans.conflicting_push # None
  /\ Last(patchorder.applied) = trans.conflicting_push.pn
  /\ \E pn \in DOMAIN patchRecs :
       pn # trans.conflicting_push.pn /\ patchRecs[pn] # pre.recs[pn]
  /\ Len(stackLog) >= Len(run.log) + 2
  /\ stackLog[Len(stackLog) - 1].msg = Msg

\* How many times x occurs in the list s.
Count(s, x) == Cardinality({i \in 1..Len(s) : s[i] = x})

\* The lists s and t hold the same names the same number of times.
SameMultiset(s, t) ==
  \A x \in Range(s) \cup Range(t) : Count(s, x) = Count(t, x)

\* C32: a reorder_patches(applied', unapplied', hidden') whose pops and
\* pushes went through returns only when the staged applied list is
\* applied' and unapplied' + hidden' holds, as a multiset, the names of the
\* patches that are not applied at that point (the transaction's patches
\* that are not in applied', each once); then unapplied and hidden are
\* staged exactly as asked.  Otherwise it raises AssertionError and the
\* lists asked for are not installed.
C32_ReorderAssertsMultisets ==
  [][(pc = "staging" /\ last'.op = "reorder_patches" /\ nops' > nops
      /\ last'.exc \in {"none", "AssertionError"}) =>
       LET ok == /\ trans'.applied = last'.applied
                 /\ SameMultiset(last'.unapplied \o last'.hidden,
                                 Filter(all_patches(trans),
                                        PatchNames \ Range(last'.applied)))
       IN /\ (last'.exc = "none") <=> ok
          /\ (last'.exc = "none") =>
               /\ trans'.unapplied = last'.unapplied
               /\ trans'.hidden = last'.hidden
          /\ (last'.exc = "AssertionError") =>
               trans'.unapplied \o trans'.hidden =
                 Filter(all_patches(trans'), PatchNames \ Range(last'.applied))]_vars

\* run() is called and its consistency check is made.
RunCalled == pc \in {"staging", "halted"} /\ last'.op = "run"

\* C33: run() starts with a consistency check that lets the staged state
\* through only if every entry of the override map names a patch of the
\* stack (to give it a commit or to delete it) or gives a commit to a name
\* the stack does not have; when the check fails run() raises and ends
\* there, before it has written the log, the worktree, a ref or a patch
\* record.
C33_ConsistencyCheckFirst ==
  [][RunCalled =>
       /\ (last'.exc = "none") =>
            \A pn \in DOMAIN trans.patches :
              \/ pn \in DOMAIN patchRecs
              \/ pn \notin DOMAIN patchRecs /\ trans.patches[pn] # None
       /\ (last'.exc # "none") =>
            /\ last'.exc = "AssertionError"
            /\ pc' = "raised"
            /\ UNCHANGED <<gitRefs, refsCache, patchRecs, patchorder,
                           stackLog, iw>>
            /\ run'.steps = << >>]_vars

\* run() raised out of its consistency check: the override map deletes a
\* patch the stack never had.
C33_Witness ==
  /\ pc = "raised" /\ last.op = "run" /\ last.exc = "AssertionError"
  /\ run.steps = << >>
  /\ \E pn \in DOMAIN trans.patches :
       trans.patches[pn] = None /\ pn \notin DOMAIN patchRecs

\* A push has just merged in the worktree and left conflicts there.
ConflictSpilled ==
  pc = "staging" /\ last'.op = "push_patch" /\ last'.out = " (conflict)"

\* C34: the transaction's current_tree is the tree it last checked the
\* worktree out to, the stack head's tree at first: a checkout, or a clean
\* merge in the worktree, made by push_patch, abort or run moves both to
\* the same tree; a checkout that fails, and a merge that leaves conflicts
\* on top of the tree just checked out, leave current_tree as it is.
C34_CurrentTreeIsCheckedOut ==
  [][/\ (trans = None /\ trans' # None) =>
          /\ trans'.current_tree = StackHead(refsCache').tree
          /\ trans'.current_tree = iw'.tree
     /\ (trans # None /\ trans' # None) =>
          /\ (trans'.current_tree # trans.current_tree) =>
               (iw' # iw /\ last'.op \in {"push_patch", "abort", "run"})
          /\ (iw' # iw) =>
               IF ConflictSpilled
               THEN /\ trans'.current_tree = Parent(last'.cd).tree
                    /\ trans'.conflicting_push # None
               ELSE /\ trans'.current_tree = iw'.tree
                    /\ ~iw'.conflicts
          /\ (iw' = iw) => trans'.current_tree = trans.current_tree
          /\ (last' # last /\ last'.exc = "CheckoutException") =>
               (iw' = iw /\ trans'.current_tree = trans.current_tree)
          /\ (trans'.current_tree = iw'.tree
              \/ trans'.conflicting_push # None)]_vars

\* A push checked the worktree out to the new parent's tree and merged
\* the patch there: current_tree is the merged tree, not the head's.
C34_Witness ==
  /\ pc = "staging"
  /\ last.op = "push_patch" /\ last.useIw /\ last.out = " (modified)"
  /\ trans.current_tree = iw.tree
  /\ trans.current_tree # StackHead(refsCache).tree

\* C35: when none of the trivial cases applies, Index.merge takes theirs
\* as ours and ours as theirs if current == theirs, runs read-tree on ours
\* only if current != ours, and applies the diff from base to theirs to
\* the index; when that applies it returns (result, result), result being
\* the tree written from the index, and when it does not it returns
\* (None, ours), ours being the tree it used as ours after the swap.
C35_NonTrivialMerge ==
  [][last'.op = "merge" =>
       LET trivial == \/ last'.base = last'.ours
                      \/ last'.base = last'.theirs
                      \/ last'.ours = last'.theirs
           swap == last'.current = last'.theirs
           o == IF swap THEN last'.theirs ELSE last'.ours
           t == IF swap THEN last'.ours ELSE last'.theirs
           read == last'.current # o
           start == IF read THEN o ELSE index.idx
           changed == {p \in Paths : last'.base[p] # t[p]}
           applies == \A p \in changed : start[p] = last'.base[p]
           result == [p \in Paths |-> IF p \in changed THEN t[p] ELSE start[p]]
       IN ~trivial =>
            /\ (read <=> (last'.cmds[1] = "read-tree"))
            /\ "apply" \in Range(last'.cmds)
            /\ IF applies
               THEN /\ last'.tree = result /\ last'.now = result
                    /\ index'.idx = result
                    /\ Last(last'.cmds) = "write-tree"
               ELSE /\ last'.tree = None /\ last'.now = o
                    /\ index'.idx = start
                    /\ Last(last'.cmds) = "apply"]_vars

\* A merge that swapped (the index held theirs, so no tree was read) and
\* did not apply: it answered (None, theirs as given).
C35_Witness ==
  /\ last.op = "merge"
  /\ last.base # last.ours /\ last.base # last.theirs
  /\ last.ours # last.theirs
  /\ last.current = last.theirs
  /\ last.cmds = <<"apply">>
  /\ last.tree = None
  /\ last.now = last.theirs

\* C36: over the push_patch calls of a transaction, temp_index_tree is
\* None or the tree that the transaction's temporary index holds, so that
\* a merge which skips read-tree because the hint is the tree it takes as
\* ours runs on an index that holds that tree; and the transaction makes
\* one temporary index at most.
C36_TempIndexHint ==
  [][/\ (trans' # None) =>
          /\ trans'.temp_index_tree \in {None, trans'.idx}
          /\ trans'.temp_index \in {None, [file |-> 1]}
          /\ (trans'.idx # None) => (trans'.temp_index # None)
     /\ (pc = "staging" /\ last'.op = "push_patch" /\ nops' > nops) =>
          LET orig_cd == TransPatch(trans, patchRecs, last'.pn)
              base == Parent(orig_cd).tree
              ours == top(trans, patchRecs).tree
              theirs == orig_cd.tree
              hint == trans.temp_index_tree
              o == IF hint = theirs THEN theirs ELSE ours
          IN /\ trans'.temp_index = [file |-> 1]
             /\ (base # ours /\ base # theirs /\ ours # theirs /\ hint = o) =>
                  trans.idx = o]_vars

\* A second push merged in the temporary index that the first push left
\* holding its new parent's tree: the index and the hint are the new tree.
C36_Witness ==
  /\ pc = "staging" /\ nops = 2
  /\ last.op = "push_patch" /\ last.exc = "none"
  /\ Len(trans.applied) >= 2
  /\ trans.applied[Len(trans.applied) - 1] \in DOMAIN trans.patches
  /\ Parent(patchRecs[last.pn]).tree # Parent(last.cd).tree
  /\ Parent(patchRecs[last.pn]).tree # patchRecs[last.pn].tree
  /\ patchRecs[last.pn].tree # Parent(last.cd).tree
  /\ last.cd.tree = trans.idx
  /\ trans.temp_index_tree = trans.idx
  /\ trans.temp_index = [file |-> 1]

\* A step of run() is taken.
RunStep == pc \in RunSteps /\ pc' # "crashed"

\* C37: one run() updates the branch ref at most once, and to the head it
\* computed when it started: the head the command set if it set one, else
\* the commit staged for the last patch of the staged applied list (the
\* base under an empty list), a deferred conflicting push not yet applied.
\* The pass that follows a conflicting push writes patch records and order
\* lists and leaves the branch ref alone; with set_head false run() makes
\* no branch ref update and no checkout.
C37_OneRefUpdate ==
  [][RunStep =>
       /\ (pc = "log_external_mods" /\ pc' \in RunSteps) =>
            /\ run'.new_head =
                 IF trans.bad_head # None THEN trans.bad_head
                 ELSE IF trans.applied = << >> THEN trans.base
                 ELSE TransPatch(trans, patchRecs, Last(trans.applied))
            /\ (trans.conflicting_push # None) =>
                 trans.conflicting_push.pn \notin Range(trans.applied)
       /\ (pc # "log_external_mods" /\ pc' \in RunSteps \cup {"done"}) =>
            run'.new_head = run.new_head
       /\ (gitRefs' # gitRefs) =>
            /\ pc = "set_head" /\ run.set_head /\ run.pass = 1
            /\ "set_head" \notin Range(run.steps)
            /\ gitRefs' = (BranchRef :> run.new_head) @@ gitRefs
       /\ (run.pass = 2) =>
            /\ gitRefs' = gitRefs /\ iw' = iw
            /\ pc \in {"write_patches", "write_order", "log_entry"}
       /\ ~run.set_head =>
            /\ gitRefs' = gitRefs /\ iw' = iw
            /\ pc \notin {"checkout", "set_head"}
       /\ Cardinality({i \in 1..Len(run'.steps) :
                         run'.steps[i] = "set_head"}) <= 1]_vars

\* run() returned after a conflicting push: the branch ref moved once, to
\* the head computed before the conflicting patch was applied, and the
\* second pass recorded that patch above it.
C37_Witness ==
  /\ pc = "done" /\ run.pass = 2 /\ run.set_head
  /\ gitRefs[BranchRef] = run.new_head
  /\ gitRefs[BranchRef] # pre.head
  /\ patchRecs[Last(patchorder.applied)] # gitRefs[BranchRef]
  /\ Parent(patchRecs[Last(patchorder.applied)]) = gitRefs[BranchRef]

\* C38: pop_patches, reorder_patches and a push_patch that returns keep
\* the set of names in applied + unapplied + hidden and make no name
\* appear twice there; no operation but delete_patches removes a name, and
\* delete_patches(p) removes the names that satisfy p and no other.
C38_NamesPreserved ==
  [][(StagingStep /\ last'.exc = "none") =>
       LET before == all_patches(trans)
           after == all_patches(trans')
       IN /\ (last'.op \in {"pop_patches", "reorder_patches", "push_patch"}) =>
               /\ Range(after) = Range(before)
               /\ NoDup(before) => NoDup(after)
          /\ (last'.op = "delete_patches") =>
               /\ Range(after) = Range(before) \ last'.p
               /\ NoDup(before) => NoDup(after)
          /\ (last'.op # "delete_patches") =>
               Range(before) \subseteq Range(after)]_vars

\* C39: whatever pop_patches, delete_patches, push_patch and
\* reorder_patches have staged over the patches of the stack, the
\* consistency check of run() passes: every name the override map deletes
\* is a patch of the live stack and every name it gives a commit is in one
\* of the three staged lists; run() never raises from the check.
C39_StagedStateConsistent ==
  /\ (pc \in {"staging", "halted"}) =>
       \A pn \in DOMAIN trans.patches :
         IF trans.patches[pn] = None THEN pn \in DOMAIN patchRecs
         ELSE pn \in Range(all_patches(trans))
  /\ ~(pc = "raised" /\ last.op = "run" /\ last.exc = "AssertionError")

\* run() was called on a transaction that deletes one patch and has a new
\* commit for another, and its consistency check passed.
C39_Witness ==
  /\ pc = "log_external_mods" /\ last.op = "run" /\ last.exc = "none"
  /\ \E pn \in DOMAIN trans.patches : trans.patches[pn] = None
  /\ \E pn \in DOMAIN trans.patches : trans.patches[pn] # None

\* C40: with no other writer of the refs, the ref cache, once loaded, holds
\* exactly the refs git stores, after any get, exists, set and delete: a
\* set to the cached value runs no update and changes nothing, a set or
\* delete that succeeds changes git and the cache alike, and a set or
\* delete that fails (a delete or a get of an unknown ref among them)
\* leaves the cache as it was, and git too.
C40_CacheIsGit ==
  [][/\ refsCache' # None => refsCache' = gitRefs'
     /\ (last'.op \in {"get", "exists", "set", "delete"}) =>
          LET cache == CacheRefs(refsCache, gitRefs)
          IN /\ (last'.op \in {"get", "exists"}) =>
                  (gitRefs' = gitRefs /\ refsCache' = cache)
             /\ (last'.op = "exists") =>
                  (last'.found <=> (last'.ref \in DOMAIN gitRefs))
             /\ (last'.op = "get") =>
                  ((last'.exc = "KeyError") <=> (last'.ref \notin DOMAIN gitRefs))
             /\ (last'.op = "set" /\ last'.old = last'.commit) =>
                  (last'.exc = "none" /\ gitRefs' = gitRefs /\ refsCache' = cache)
             /\ (last'.op = "set" /\ last'.exc = "none") =>
                  /\ gitRefs' = (last'.ref :> last'.commit) @@ gitRefs
                  /\ refsCache' = (last'.ref :> last'.commit) @@ cache
             /\ (last'.op = "delete" /\ last'.exc = "none") =>
                  /\ last'.ref \in DOMAIN gitRefs
                  /\ gitRefs' = [r \in DOMAIN gitRefs \ {last'.ref} |-> gitRefs[r]]
                  /\ refsCache' = gitRefs'
             /\ (last'.op = "delete" /\ last'.ref \notin DOMAIN gitRefs) =>
                  last'.exc = "KeyError"
             /\ (last'.exc # "none") =>
                  (gitRefs' = gitRefs /\ refsCache' = cache)]_vars

\* A ref was set and then deleted: neither git nor the cache has it, and
\* both still agree on the other ref.
C40_Witness ==
  /\ last.op = "delete" /\ last.exc = "none"
  /\ refsCache # None
  /\ last.ref \notin DOMAIN gitRefs /\ last.ref \notin DOMAIN refsCache
  /\ DOMAIN refsCache # {}
  /\ refsCache = gitRefs
  /\ last.ref # BranchRef
  /\ BranchRef \in DOMAIN gitRefs /\ gitRefs[BranchRef] = Cb

====
